---- MODULE Spec2Model ----
(***************************************************************************)
(* Event-driven settlement and reconciliation engine of the metal          *)
(* accumulation backend: the webhook event processor, the subscription     *)
(* sync, and the withdrawal settlement transaction.                        *)
(*                                                                         *)
(* Units.  Money is kept in minor units (the code's amount_paid; the       *)
(* code's accumulatedValue is amount_paid / 100, here it is the same       *)
(* number times 100).  Weights are kept in 1/WeightScale of a unit, so     *)
(* that the code's float arithmetic becomes integer arithmetic; a          *)
(* conversion between ounces and grams rounds, as the float conversion     *)
(* does.                                                                   *)
(***************************************************************************)
EXTENDS Integers, Sequences, FiniteSets, TLC

None == "none"

\* ------------------------------------------------------------------ bounds
\* webhook deliveries in one run (the delivery clock stops there)
MaxDeliveries == 3
\* successful settlements in one run
MaxSettlements == 2

\* --------------------------------------------------------- program constants
\* OZ_IN_GRAMS = 31.1034768, kept to three decimals: OzInGramsMilli / 1000
OzInGramsMilli == 31103
\* one weight unit (1 g or 1 oz) in the model's weight grain
WeightScale == 10000

VARIABLES
  orders,      \* the orders collection, in natural (insertion) order
  subs,        \* the subscriptions collection, in natural order; _id = index
               \* (a reference to a subscription is its index; 0 is no reference)
  users,       \* the users collection: user id -> withdrawn totals
  requests,    \* the withdrawalrequests collection: request id -> record
  prices,      \* the metalprices collection: metal -> price per base unit (0: none)
  cancellations, \* the cancellationrequests collection: request id -> record
  canceled,    \* external processor: the subscription ids it holds as canceled
  now,         \* the delivery clock (stamped as latestStripeEventReceivedAt)
  last,        \* the operation that made the last step, its inputs and its result
  applied,     \* history: the pairs <<order index, id of an event stamped on it>>
  accrued,     \* history: the triples <<subscription index, id of a paid invoice
               \* event synced into it, time of the delivery>>
  credits,     \* history: request id -> number of settlements committed for it
  txn          \* the settlement transactions in flight (concurrent specification)

vars == <<orders, subs, users, requests, cancellations, prices, canceled, now, last,
          applied, accrued, credits, txn>>

Metals == {"gold", "silver"}
Units == {"oz", "g"}
WithdrawalStatuses ==
  {"pending", "in_review", "approved", "processing", "rejected", "completed"}

\* ------------------------------------------------------------ unit conversion

convertWeight(weight, fromUnit, toUnit) ==
  IF fromUnit = toUnit THEN weight
  ELSE IF fromUnit = "oz" /\ toUnit = "g" THEN (weight * OzInGramsMilli) \div 1000
  ELSE IF fromUnit = "g" /\ toUnit = "oz" THEN (weight * 1000) \div OzInGramsMilli
  ELSE weight

\* ------------------------------------------------------ withdrawal settlement

\* The places of processWithdrawalApproval where a database call can throw.
SettleFaults ==
  {"none", "readRequest", "readSubscription", "readUser", "saveSubscription",
   "saveUser", "commit"}

\* What the external processor answers to cancel + retrieve.
CancelOutcomes == {"verified", "unverified", "throws"}

\* The ids of the requests the store comes to hold.
StoredRequestIds == {1}

\* The request ids a caller may pass; an id need not name a stored request.
RequestIds == StoredRequestIds \cup {2}

\* abortTransaction: what the session wrote is discarded, the collections stay
\* as they were.  `written` is the collections with the session's writes.
AbortKeepingWrites(err, called, written) ==
  [success |-> FALSE, error |-> err,
   subs |-> written.subs, users |-> written.users,
   cancelCalled |-> called, isCase2 |-> FALSE, credited |-> 0]

Abort(err, called, written) ==
  [success |-> FALSE, error |-> err, subs |-> subs, users |-> users,
   cancelCalled |-> called, isCase2 |-> FALSE, credited |-> 0]

\* A precondition that does not hold: abort and return the typed failure.
Reject(err) == Abort(err, FALSE, [subs |-> subs, users |-> users])

\* The catch block: abort, return the exception's message as a typed failure.
Caught(called, written) == Abort("exception", called, written)

\* The checks on the withdrawal request: the error returned, None when it passes.
RequestErrorNoApprovedCheck(reqs, rid) ==
  IF rid \notin DOMAIN reqs THEN "request not found"
  ELSE IF reqs[rid].status \in {"completed", "rejected"} THEN "already processed"
  ELSE IF reqs[rid].subscriptionId = 0 THEN "no subscription link"
  ELSE None

RequestError(reqs, rid) ==
  IF rid \notin DOMAIN reqs THEN "request not found"
  ELSE IF reqs[rid].status \in {"completed", "rejected"} THEN "already processed"
  ELSE IF reqs[rid].status # "approved" THEN "not approved"
  ELSE IF reqs[rid].subscriptionId = 0 THEN "no subscription link"
  ELSE None

\* The checks on the request's subscription, read from `sbs` (the request
\* passed RequestError).
SubscriptionError(reqs, sbs, rid) ==
  LET wr == reqs[rid] IN
  IF wr.subscriptionId \notin 1..Len(sbs) THEN "subscription not found"
  ELSE LET sub == sbs[wr.subscriptionId] IN
  IF sub.accumulatedWeight = 0 THEN "accumulated weight is 0"
  ELSE IF sub.accumulatedWeight <
            convertWeight(wr.requestedWeight, wr.requestedUnit, sub.targetUnit)
    THEN "insufficient weight"
  ELSE None

IsCase2Strict(sub) == sub.accumulatedWeight > sub.targetWeight

\* Case 2: the plan has reached its target and is to be terminated.
IsCase2(sub) == sub.accumulatedWeight >= sub.targetWeight

\* The subscription as the settlement leaves it; whatever the external cancel
\* and its verification answered, case 2 marks it canceled.
SettledSubscription(sub, isCase2) ==
  [sub EXCEPT !.accumulatedWeight = 0,
              !.accumulatedValue = 0,
              !.status = IF isCase2 THEN "canceled" ELSE @]

CreditedUserRaw(user, wr) ==
  IF wr.metal = "gold"
    THEN [user EXCEPT !.withdrawnGold = @ + wr.requestedWeight]
    ELSE [user EXCEPT !.withdrawnSilver = @ + wr.requestedWeight]

\* The weight credited: the requested weight in the metal's standard unit.
StandardWeight(wr) ==
  IF wr.metal = "gold"
    THEN convertWeight(wr.requestedWeight, wr.requestedUnit, "g")
    ELSE convertWeight(wr.requestedWeight, wr.requestedUnit, "oz")

CreditedUser(user, wr) ==
  IF wr.metal = "gold"
    THEN [user EXCEPT !.withdrawnGold = @ + StandardWeight(wr)]
    ELSE [user EXCEPT !.withdrawnSilver = @ + StandardWeight(wr)]

\* processWithdrawalApproval as one transaction, on the stored requests
\* `reqs`: the result, and the
\* subscriptions and users collections as it leaves them.  `fault` is the
\* database call that throws (if any), `outcome` the processor's answer to
\* the cancel call and its verification (the code marks the subscription
\* canceled whichever it is).
ProcessWithdrawalApproval(reqs, rid, fault, outcome) ==
  LET clean == [subs |-> subs, users |-> users] IN
  IF fault = "readRequest" THEN Caught(FALSE, clean)
  ELSE IF RequestError(reqs, rid) # None THEN Reject(RequestError(reqs, rid))
  ELSE IF fault = "readSubscription" THEN Caught(FALSE, clean)
  ELSE IF SubscriptionError(reqs, subs, rid) # None
    THEN Reject(SubscriptionError(reqs, subs, rid))
  ELSE LET wr == reqs[rid]
           sid == wr.subscriptionId
           sub == subs[sid]
           isCase2 == IsCase2(sub)
           called == isCase2 /\ sub.stripeSubscriptionId # None
           subsSaved == [subs EXCEPT ![sid] = SettledSubscription(sub, isCase2)]
       IN
  IF fault = "readUser" THEN Caught(called, clean)
  ELSE IF wr.userId \notin DOMAIN users THEN Abort("user not found", called, clean)
  ELSE LET usersSaved == [users EXCEPT ![wr.userId] = CreditedUser(@, wr)] IN
  IF fault = "saveSubscription" THEN Caught(called, clean)
  ELSE IF fault = "saveUser" THEN Caught(called, [subs |-> subsSaved, users |-> users])
  ELSE IF fault = "commit" THEN Caught(called, [subs |-> subsSaved, users |-> usersSaved])
  ELSE [success |-> TRUE, error |-> None,
        subs |-> subsSaved, users |-> usersSaved,
        cancelCalled |-> called, isCase2 |-> isCase2, credited |-> StandardWeight(wr)]

\* One call of processWithdrawalApproval(rid), by whoever calls it.
Settle(rid, fault, outcome) ==
  LET r == ProcessWithdrawalApproval(requests, rid, fault, outcome) IN
  /\ r.success => credits[rid] < MaxSettlements
  /\ subs' = r.subs
  /\ users' = r.users
  /\ canceled' = IF r.cancelCalled /\ outcome = "verified"
                   THEN canceled \cup {subs[requests[rid].subscriptionId].stripeSubscriptionId}
                   ELSE canceled
  /\ credits' = IF r.success THEN [credits EXCEPT ![rid] = @ + 1] ELSE credits
  /\ last' = [op |-> "settle", rid |-> rid, success |-> r.success, error |-> r.error,
              fault |-> IF r.error = "exception" THEN fault ELSE "none",
              outcome |-> IF r.cancelCalled THEN outcome ELSE None,
              isCase2 |-> r.isCase2,
              credited |-> r.credited, cancelCalled |-> r.cancelCalled,
              subs |-> subs, users |-> users, requests |-> requests,
              canceled |-> canceled]
  /\ UNCHANGED <<orders, requests, cancellations, prices, now, applied, accrued, txn>>

\* ------------------------------------------------------------ order ledger

\* Object.assign(doc, updates): every key of `updates` is written; a None
\* value clears the field.
Assign(doc, updates) ==
  [f \in DOMAIN doc |-> IF f \in DOMAIN updates THEN updates[f] ELSE doc[f]]

\* Model.findOne({field: value}): the first document in natural order, 0 if none.
FindFirst(docs, field, value) ==
  LET hits == {i \in 1..Len(docs) : docs[i][field] = value}
  IN IF hits = {} THEN 0 ELSE CHOOSE i \in hits : \A j \in hits : i <= j

\* An OrderLookup; a key that is absent is 0 (orderId) or None.
Lookup(orderId, session, subscription, invoice, paymentIntent) ==
  [orderId |-> orderId, stripeSessionId |-> session,
   stripeSubscriptionId |-> subscription, stripeInvoiceId |-> invoice,
   stripePaymentIntentId |-> paymentIntent]

\* The filters of updateOrderByLookup, in the order they are pushed.
LookupKeys ==
  <<"stripeSessionId", "stripeSubscriptionId", "stripeInvoiceId", "stripePaymentIntentId">>

\* The loop over the filters run to its end: the last filter that finds an
\* order decides.
MatchOrderLastFilter(ords, lookup) ==
  LET byId == IF lookup.orderId # 0 THEN FindFirst(ords, "id", lookup.orderId) ELSE 0
      byKey == [k \in 1..Len(LookupKeys) |->
                  IF lookup[LookupKeys[k]] # None
                    THEN FindFirst(ords, LookupKeys[k], lookup[LookupKeys[k]])
                    ELSE 0]
      found == {k \in 1..Len(LookupKeys) : byKey[k] # 0}
  IN IF found # {} THEN byKey[CHOOSE k \in found : \A j \in found : k >= j]
     ELSE byId

\* The order the loop over the filters stops at: the one found by the first
\* filter that finds any; 0 when no filter finds one.
MatchOrder(ords, lookup) ==
  LET byId == IF lookup.orderId # 0 THEN FindFirst(ords, "id", lookup.orderId) ELSE 0
      byKey == [k \in 1..Len(LookupKeys) |->
                  IF lookup[LookupKeys[k]] # None
                    THEN FindFirst(ords, LookupKeys[k], lookup[LookupKeys[k]])
                    ELSE 0]
      found == {k \in 1..Len(LookupKeys) : byKey[k] # 0}
  IN IF byId # 0 THEN byId
     ELSE IF found = {} THEN 0
     ELSE byKey[CHOOSE k \in found : \A j \in found : k <= j]

\* A stamp that leaves the event id out.
StampWithoutEventId(order, ctx) ==
  [order EXCEPT !.latestStripeEvent = ctx.eventType,
                !.latestStripeEventReceivedAt = ctx.deliveredAt]

\* The idempotence stamp of an applied event.
Stamp(order, ctx) ==
  [order EXCEPT !.latestStripeEvent = ctx.eventType,
                !.latestStripeEventId = ctx.eventId,
                !.latestStripeEventReceivedAt = ctx.deliveredAt]

UpdateOrderByLookupNoDuplicateCheck(ords, lookup, updates, ctx) ==
  LET i == MatchOrder(ords, lookup) IN
  IF i = 0 THEN [orders |-> ords, idx |-> 0, alerts |-> 1]
  ELSE [orders |-> [ords EXCEPT ![i] = Stamp(Assign(@, updates), ctx)], idx |-> i,
        alerts |-> 0]

\* updateOrderByLookup without its call of notifyOps.
UpdateOrderByLookupNoAlert(ords, lookup, updates, ctx) ==
  LET i == MatchOrder(ords, lookup) IN
  IF i = 0 THEN [orders |-> ords, idx |-> 0, alerts |-> 0]
  ELSE IF ords[i].latestStripeEventId = ctx.eventId
    THEN [orders |-> ords, idx |-> i, alerts |-> 0]
  ELSE [orders |-> [ords EXCEPT ![i] = Stamp(Assign(@, updates), ctx)], idx |-> i,
        alerts |-> 0]

\* updateOrderByLookup: the orders collection as it leaves it, the index of
\* the order it returns (0: null) and the number of operations alerts it
\* emitted (notifyOps, which never throws).
UpdateOrderByLookup(ords, lookup, updates, ctx) ==
  LET i == MatchOrder(ords, lookup) IN
  IF i = 0 THEN [orders |-> ords, idx |-> 0, alerts |-> 1]
  ELSE IF ords[i].latestStripeEventId = ctx.eventId
    THEN [orders |-> ords, idx |-> i, alerts |-> 0]
  ELSE [orders |-> [ords EXCEPT ![i] = Stamp(Assign(@, updates), ctx)], idx |-> i,
        alerts |-> 0]

\* -------------------------------------------------------- subscription sync

getBaseUnitForMetal(metal) == IF metal = "silver" THEN "oz" ELSE "g"

convertPriceToTargetUnit(price, baseUnit, targetUnit) ==
  IF targetUnit = baseUnit THEN price
  ELSE IF baseUnit = "g" /\ targetUnit = "oz" THEN (price * OzInGramsMilli) \div 1000
  ELSE IF baseUnit = "oz" /\ targetUnit = "g" THEN (price * 1000) \div OzInGramsMilli
  ELSE price

\* 0 stands for null: no price record, or a price that is not positive.
getMetalPricePerUnit(metal, targetUnit) ==
  IF prices[metal] <= 0 THEN 0
  ELSE convertPriceToTargetUnit(prices[metal], getBaseUnitForMetal(metal), targetUnit)

\* The weight bought by amountDelta at a price of one per unit.
computeWeightDeltaAtPar(metal, targetUnit, amountDelta) ==
  IF amountDelta <= 0 THEN 0 ELSE amountDelta * WeightScale

\* The weight bought by amountDelta, at a price of one per unit when no price
\* is stored.
computeWeightDeltaUnpriced(metal, targetUnit, amountDelta) ==
  IF amountDelta <= 0 THEN 0
  ELSE IF getMetalPricePerUnit(metal, targetUnit) <= 0 THEN amountDelta * WeightScale
  ELSE (amountDelta * WeightScale) \div getMetalPricePerUnit(metal, targetUnit)

\* The weight bought by amountDelta; 0 stands for null (nothing to add).  No
\* caller passes an explicit weight delta.
computeWeightDelta(metal, targetUnit, amountDelta) ==
  IF amountDelta <= 0 THEN 0
  ELSE IF getMetalPricePerUnit(metal, targetUnit) <= 0 THEN 0
  ELSE (amountDelta * WeightScale) \div getMetalPricePerUnit(metal, targetUnit)

\* The options of a sync; valueDelta 0 is no accumulatedValueDelta.
SyncOptions(status, stripeSubscriptionId, valueDelta) ==
  [status |-> status, stripeSubscriptionId |-> stripeSubscriptionId,
   valueDelta |-> valueDelta]

\* The subscription a sync works on: by external id, else by the order's link,
\* else by the plan fingerprint; 0 when there is none.
FindSubscription(sbs, order, sid) ==
  LET byStripe == IF sid # None THEN FindFirst(sbs, "stripeSubscriptionId", sid) ELSE 0
      byLink == IF order.subscriptionId \in 1..Len(sbs) THEN order.subscriptionId ELSE 0
      prints == {i \in 1..Len(sbs) :
                   /\ sbs[i].userId = order.user
                   /\ sbs[i].stripeCustomerId = order.stripeCustomerId
                   /\ sbs[i].metal = order.config.metal
                   /\ sbs[i].planName = order.config.planName
                   /\ sbs[i].targetWeight = order.config.targetWeight
                   /\ sbs[i].targetUnit = order.config.targetUnit}
  IN IF byStripe # 0 THEN byStripe
     ELSE IF byLink # 0 THEN byLink
     ELSE IF prints = {} THEN 0
     ELSE CHOOSE i \in prints : \A j \in prints : i <= j

AccumulateSet(sub, valueDelta, weightDelta) ==
  [sub EXCEPT !.accumulatedValue = valueDelta,
              !.accumulatedWeight = weightDelta]

\* update.$inc applied to a stored subscription.
Accumulate(sub, valueDelta, weightDelta) ==
  [sub EXCEPT !.accumulatedValue = @ + valueDelta,
              !.accumulatedWeight = @ + weightDelta]

\* syncSubscriptionFromOrder(ords[i], opt): both collections as it leaves
\* them and the subscription it returns (0: null).
SyncSubscriptionFromOrder(ords, sbs, i, opt) ==
  LET order == ords[i] IN
  IF order.orderType # "subscription" \/ order.user = None \/ order.stripeCustomerId = None
    THEN [orders |-> ords, subs |-> sbs, sub |-> 0]
  ELSE
  LET cfg == order.config
      sid == IF order.stripeSubscriptionId # None THEN order.stripeSubscriptionId
             ELSE opt.stripeSubscriptionId
      found == FindSubscription(sbs, order, sid)
      set == [planName |-> cfg.planName, metal |-> cfg.metal,
              targetWeight |-> cfg.targetWeight, targetUnit |-> cfg.targetUnit,
              stripeCustomerId |-> order.stripeCustomerId,
              status |-> IF opt.status = None THEN "pending_payment" ELSE opt.status]
      weightDelta == computeWeightDelta(cfg.metal, cfg.targetUnit, opt.valueDelta)
      target == IF found # 0 THEN found ELSE Len(sbs) + 1
      linked == IF order.subscriptionId # target
                  THEN [ords EXCEPT ![i].subscriptionId = target] ELSE ords
  IN
  IF found # 0
    THEN LET assigned == Assign(sbs[found], set)
             withId == IF sid # None THEN [assigned EXCEPT !.stripeSubscriptionId = sid]
                       ELSE assigned
         IN [orders |-> linked,
             subs |-> [sbs EXCEPT ![found] = Accumulate(withId, opt.valueDelta, weightDelta)],
             sub |-> found]
    ELSE [orders |-> linked,
          subs |-> Append(sbs,
                     [userId |-> order.user, planName |-> cfg.planName, metal |-> cfg.metal,
                      targetWeight |-> cfg.targetWeight, targetUnit |-> cfg.targetUnit,
                      stripeCustomerId |-> order.stripeCustomerId,
                      stripeSubscriptionId |-> sid,
                      status |-> set.status,
                      accumulatedValue |-> opt.valueDelta,
                      accumulatedWeight |-> weightDelta]),
          sub |-> target]

mapStripeSubscriptionStatus(status) ==
  IF status \in {"active", "trialing", "incomplete", "incomplete_expired", "past_due",
                 "canceled", "unpaid"}
    THEN status ELSE "pending_payment"

\* applyStripeSubscriptionEvent(snapshot): the stored subscription with the
\* snapshot's id takes its status and customer; when there is none, a sync
\* from the order named in the snapshot's metadata.
ApplyStripeSubscriptionEvent(ords, sbs, ev) ==
  LET status == mapStripeSubscriptionStatus(ev.status)
      hit == FindFirst(sbs, "stripeSubscriptionId", ev.subscription)
      oi == IF ev.oid # 0 THEN FindFirst(ords, "id", ev.oid) ELSE 0
  IN IF hit # 0
       THEN [orders |-> ords,
             subs |-> [sbs EXCEPT ![hit].status = status,
                                  ![hit].stripeCustomerId = ev.customer],
             sub |-> hit]
     ELSE IF oi # 0
       THEN SyncSubscriptionFromOrder(ords, sbs, oi, SyncOptions(status, ev.subscription, 0))
     ELSE [orders |-> ords, subs |-> sbs, sub |-> 0]

\* ---------------------------------------------------- the billing processor

\* The checkout sessions the processor can open, by mode.
SessionIds == {"cs_sub", "cs_pay"}

\* What the processor holds and answers on retrieve.  A checkout session
\* carries the id of the order it was opened for in its metadata; only a
\* session in payment mode has a payment intent, only a session in
\* subscription mode a subscription; a payment intent made by a checkout
\* carries no metadata and no invoice.
StripeSessions ==
  [cs \in SessionIds |->
     [mode |-> IF cs = "cs_sub" THEN "subscription" ELSE "payment",
      paymentIntent |-> IF cs = "cs_sub" THEN None ELSE "pi_1",
      subscription |-> IF cs = "cs_sub" THEN "sub_A" ELSE None,
      customer |-> "cus_A",
      orderId |-> IF cs = "cs_sub" THEN 1 ELSE 2]]

StripePaymentIntents ==
  [pi \in {"pi_1"} |->
     [orderId |-> 0, session |-> None, customer |-> "cus_A", invoice |-> None]]

\* invoice.metadata.orderId of a retrieved invoice (0: none).
StripeInvoiceOrderId(invoice) == 0

\* stripe.checkout.sessions.list({customer})
StripeSessionsOf(customer) ==
  {cs \in DOMAIN StripeSessions : StripeSessions[cs].customer = customer}

\* ------------------------------------------------------------ the events

Event(type, oid, session, customer, subscription, invoice, paymentIntent, amount, status) ==
  [type |-> type, oid |-> oid, session |-> session, customer |-> customer,
   subscription |-> subscription, invoice |-> invoice,
   paymentIntent |-> paymentIntent, amount |-> amount, status |-> status]

\* The deliveries the processor can make: event id -> event.  An event id
\* names one event, whatever the number of its deliveries.
\*   oid       metadata.orderId of the event's object (0: none)
\*   amount    amount_total, amount_paid or amount_due, in minor units
\*   status    payment_status (session), status (invoice, subscription)
Events ==
  [evt_checkout |->
     Event("checkout.session.completed", 1, "cs_sub", "cus_A", "sub_A", "in_1", None, 1000, "paid"),
   evt_checkout_pay |->
     Event("checkout.session.completed", 2, "cs_pay", "cus_A", None, None, "pi_1", 1000, "paid"),
   evt_async |->
     Event("checkout.session.async_payment_failed", 1, "cs_sub", "cus_A", None, None, None,
           1000, "unpaid"),
   evt_paid1 |->
     Event("invoice.payment_succeeded", 0, None, "cus_A", "sub_A", "in_1", None, 1000, "paid"),
   evt_paid2 |->
     Event("invoice.payment_succeeded", 0, None, "cus_A", "sub_A", "in_2", None, 1000, "paid"),
   evt_unpaid |->
     Event("invoice.payment_failed", 0, None, "cus_A", "sub_A", "in_3", None, 1000, "open"),
   evt_sub |->
     Event("customer.subscription.updated", 1, None, "cus_A", "sub_A", None, None, 0, "active"),
   evt_sub_canceled |->
     Event("customer.subscription.updated", 1, None, "cus_A", "sub_A", None, None, 0,
           "canceled"),
   evt_sub_created |->
     Event("customer.subscription.created", 1, None, "cus_A", "sub_A", None, None, 0,
           "incomplete"),
   evt_deleted |->
     Event("customer.subscription.deleted", 1, None, "cus_A", "sub_A", None, None, 0, "canceled"),
   evt_pi_created |->
     Event("payment_intent.created", 0, None, None, None, None, "pi_1", 0, None),
   evt_pi_failed |->
     Event("payment_intent.payment_failed", 0, None, None, None, None, "pi_1", 0, None),
   evt_charge |->
     Event("charge.succeeded", 0, None, "cus_A", None, None, "pi_1", 1000, None)]

EventIds == DOMAIN Events

StripeEventContext(e, deliveredAt) ==
  [eventId |-> e, eventType |-> Events[e].type, deliveredAt |-> deliveredAt]

\* --------------------------------------------------------- event processor

buildPaymentStatus(status) ==
  IF status = None THEN "pending"
  ELSE IF status \in {"paid", "succeeded"} THEN "succeeded"
  ELSE IF status \in {"unpaid", "failed"} THEN "failed"
  ELSE IF status \in {"processing", "requires_payment_method", "requires_action", "refunded"}
    THEN status
  ELSE "pending"

\* The mapping with past_due taken as a failure.
mapSubscriptionStatusPastDueFailed(status) ==
  IF status = "active" THEN [status |-> "paid", paymentStatus |-> "succeeded"]
  ELSE IF status \in {"canceled", "unpaid", "past_due"}
    THEN [status |-> "cancelled", paymentStatus |-> "failed"]
  ELSE [status |-> "pending", paymentStatus |-> "pending"]

mapSubscriptionStatus(status) ==
  IF status = "active" THEN [status |-> "paid", paymentStatus |-> "succeeded"]
  ELSE IF status \in {"canceled", "unpaid"}
    THEN [status |-> "cancelled", paymentStatus |-> "failed"]
  ELSE [status |-> "pending", paymentStatus |-> "pending"]

\* What a handler hands back: both collections and the subscription that an
\* amount was accumulated into (0: none).
Handled(ords, sbs, paidInto) == [orders |-> ords, subs |-> sbs, paidInto |-> paidInto]

\* The sync that follows a matched order in a handler; nothing for no order
\* and for an order that is not of type subscription.
SyncAfter(r, sbs, opt) ==
  IF r.idx = 0 \/ r.orders[r.idx].orderType # "subscription"
    THEN [orders |-> r.orders, subs |-> sbs, sub |-> 0]
    ELSE SyncSubscriptionFromOrder(r.orders, sbs, r.idx, opt)

\* case 'checkout.session.completed'
CheckoutSessionCompleted(ords, sbs, ev, ctx) ==
  LET isUnpaid == ev.status = "unpaid"
      update == [status |-> IF isUnpaid THEN "cancelled"
                            ELSE IF ev.status = "paid" THEN "paid" ELSE "pending",
                 paymentStatus |-> IF isUnpaid THEN "failed" ELSE buildPaymentStatus(ev.status),
                 stripeCustomerId |-> ev.customer,
                 stripeSubscriptionId |-> ev.subscription,
                 stripePaymentIntentId |-> ev.paymentIntent,
                 stripeInvoiceId |-> ev.invoice,
                 amountInMinor |-> ev.amount]
      r == UpdateOrderByLookup(ords, Lookup(ev.oid, ev.session, ev.subscription, None, None),
                               update, ctx)
      s == SyncAfter(r, sbs,
             SyncOptions(IF isUnpaid THEN "past_due" ELSE "pending_payment", ev.subscription, 0))
  IN Handled(s.orders, s.subs, 0)

\* case 'checkout.session.async_payment_failed'
CheckoutSessionAsyncPaymentFailed(ords, sbs, ev, ctx) ==
  LET update == [status |-> "cancelled", paymentStatus |-> "failed",
                 stripeCustomerId |-> ev.customer,
                 stripeSubscriptionId |-> ev.subscription,
                 stripePaymentIntentId |-> ev.paymentIntent,
                 stripeInvoiceId |-> ev.invoice,
                 amountInMinor |-> ev.amount]
      r == UpdateOrderByLookup(ords, Lookup(ev.oid, ev.session, ev.subscription, None, None),
                               update, ctx)
      s == SyncAfter(r, sbs, SyncOptions("past_due", ev.subscription, 0))
  IN Handled(s.orders, s.subs, 0)

\* The renewal order created without the stamp of the event that made it.
RenewalOrderUnstamped(ords, sbs, si, ev, ctx, status, paymentStatus, withIntent) ==
  [id |-> Cardinality(SessionIds) + ctx.deliveredAt,
   user |-> sbs[si].userId, subscriptionId |-> si,
   orderType |-> "subscription", amountInMinor |-> ev.amount,
   status |-> status, paymentStatus |-> paymentStatus, invoiceStatus |-> ev.status,
   stripeSessionId |-> None, stripeCustomerId |-> ev.customer,
   stripeSubscriptionId |-> ev.subscription, stripeInvoiceId |-> ev.invoice,
   stripePaymentIntentId |-> IF withIntent THEN ev.paymentIntent ELSE None,
   latestStripeEvent |-> ctx.eventType, latestStripeEventId |-> None,
   latestStripeEventReceivedAt |-> ctx.deliveredAt,
   config |-> [planName |-> sbs[si].planName, metal |-> sbs[si].metal,
               targetWeight |-> sbs[si].targetWeight, targetUnit |-> sbs[si].targetUnit]]

\* The renewal order an invoice event creates when no order matched and a
\* subscription has the invoice's external subscription id; the plan comes
\* from the earliest order of that external id, else from the subscription.
RenewalOrder(ords, sbs, si, ev, ctx, status, paymentStatus, withIntent) ==
  LET firsts == {i \in 1..Len(ords) :
                   /\ ords[i].stripeSubscriptionId = ev.subscription
                   /\ ords[i].orderType = "subscription"}
      config == IF firsts # {}
                  THEN ords[CHOOSE i \in firsts : \A j \in firsts : i <= j].config
                  ELSE [planName |-> sbs[si].planName, metal |-> sbs[si].metal,
                        targetWeight |-> sbs[si].targetWeight,
                        targetUnit |-> sbs[si].targetUnit]
  IN [id |-> Cardinality(SessionIds) + ctx.deliveredAt,
      user |-> sbs[si].userId, subscriptionId |-> si,
      orderType |-> "subscription", amountInMinor |-> ev.amount,
      status |-> status, paymentStatus |-> paymentStatus, invoiceStatus |-> ev.status,
      stripeSessionId |-> None, stripeCustomerId |-> ev.customer,
      stripeSubscriptionId |-> ev.subscription, stripeInvoiceId |-> ev.invoice,
      stripePaymentIntentId |-> IF withIntent THEN ev.paymentIntent ELSE None,
      latestStripeEvent |-> ctx.eventType, latestStripeEventId |-> ctx.eventId,
      latestStripeEventReceivedAt |-> ctx.deliveredAt, config |-> config]

\* The order an invoice handler goes on with: the matched one, else the
\* renewal order it creates, else none.
InvoiceOrder(ords, sbs, r, ev, ctx, status, paymentStatus, withIntent) ==
  LET si == IF ev.subscription # None
              THEN FindFirst(sbs, "stripeSubscriptionId", ev.subscription) ELSE 0
  IN IF r.idx # 0 \/ si = 0 \/ sbs[si].userId = None THEN r
     ELSE [orders |-> Append(ords, RenewalOrder(ords, sbs, si, ev, ctx, status, paymentStatus,
                                                  withIntent)),
           idx |-> Len(ords) + 1]

\* case 'invoice.payment_succeeded'
InvoicePaymentSucceeded(ords, sbs, ev, ctx) ==
  LET update == [status |-> "paid", paymentStatus |-> "succeeded",
                 invoiceStatus |-> ev.status,
                 stripeInvoiceId |-> ev.invoice,
                 stripeSubscriptionId |-> ev.subscription,
                 stripeCustomerId |-> ev.customer,
                 stripePaymentIntentId |-> ev.paymentIntent,
                 amountInMinor |-> ev.amount]
      r == UpdateOrderByLookup(ords, Lookup(ev.oid, None, ev.subscription, ev.invoice, None),
                               update, ctx)
      o == InvoiceOrder(r.orders, sbs, r, ev, ctx, "paid", "succeeded", TRUE)
      s == SyncAfter(o, sbs, SyncOptions("active", ev.subscription, ev.amount))
  IN Handled(s.orders, s.subs, IF ev.amount # 0 THEN s.sub ELSE 0)

\* The case with the amount due accumulated as a payment is.
InvoicePaymentFailedAccruing(ords, sbs, ev, ctx) ==
  LET update == [status |-> "pending", paymentStatus |-> "failed",
                 invoiceStatus |-> ev.status,
                 stripeInvoiceId |-> ev.invoice,
                 stripeSubscriptionId |-> ev.subscription,
                 stripeCustomerId |-> ev.customer,
                 amountInMinor |-> ev.amount]
      r == UpdateOrderByLookup(ords, Lookup(ev.oid, None, ev.subscription, ev.invoice, None),
                               update, ctx)
      o == InvoiceOrder(r.orders, sbs, r, ev, ctx, "pending", "failed", FALSE)
      s == SyncAfter(o, sbs, SyncOptions("past_due", ev.subscription, ev.amount))
  IN Handled(s.orders, s.subs, 0)

\* case 'invoice.payment_failed'
InvoicePaymentFailed(ords, sbs, ev, ctx) ==
  LET update == [status |-> "pending", paymentStatus |-> "failed",
                 invoiceStatus |-> ev.status,
                 stripeInvoiceId |-> ev.invoice,
                 stripeSubscriptionId |-> ev.subscription,
                 stripeCustomerId |-> ev.customer,
                 amountInMinor |-> ev.amount]
      r == UpdateOrderByLookup(ords, Lookup(ev.oid, None, ev.subscription, ev.invoice, None),
                               update, ctx)
      o == InvoiceOrder(r.orders, sbs, r, ev, ctx, "pending", "failed", FALSE)
      s == SyncAfter(o, sbs, SyncOptions("past_due", ev.subscription, 0))
  IN Handled(s.orders, s.subs, 0)

\* case 'customer.subscription.created' and 'customer.subscription.updated'
CustomerSubscriptionUpdated(ords, sbs, ev, ctx) ==
  LET update == [status |-> mapSubscriptionStatus(ev.status).status,
                 paymentStatus |-> mapSubscriptionStatus(ev.status).paymentStatus,
                 stripeSubscriptionId |-> ev.subscription,
                 stripeCustomerId |-> ev.customer]
      r == UpdateOrderByLookup(ords, Lookup(ev.oid, None, ev.subscription, None, None),
                               update, ctx)
      s == ApplyStripeSubscriptionEvent(r.orders, sbs, ev)
  IN Handled(s.orders, s.subs, 0)

\* case 'customer.subscription.deleted'
CustomerSubscriptionDeleted(ords, sbs, ev, ctx) ==
  LET s == ApplyStripeSubscriptionEvent(ords, sbs, ev)
  IN Handled(s.orders, s.subs, 0)

\* The least index of a non-empty set of indices.
First(S) == CHOOSE i \in S : \A j \in S : i <= j

\* Order.find: the pending orders still at 'checkout.session.created' that
\* have a session and whose customer is one of `customers`.
PendingAtCheckout(ords, customers) ==
  {i \in 1..Len(ords) :
     /\ ords[i].stripeCustomerId \in customers
     /\ ords[i].status = "pending"
     /\ ords[i].latestStripeEvent = "checkout.session.created"
     /\ ords[i].stripeSessionId # None}

\* case 'payment_intent.created' (the payment intent was retrieved)
PaymentIntentCreated(ords, sbs, ev, ctx) ==
  LET pi == StripePaymentIntents[ev.paymentIntent]
      byMeta == IF pi.orderId # 0 THEN FindFirst(ords, "id", pi.orderId) ELSE 0
      bySession == IF pi.session # None
                     THEN FindFirst(ords, "stripeSessionId", pi.session) ELSE 0
      hits == IF pi.customer = None THEN {}
              ELSE {i \in PendingAtCheckout(ords, {pi.customer, None}) :
                      /\ ords[i].stripeSessionId \in DOMAIN StripeSessions
                      /\ StripeSessions[ords[i].stripeSessionId].paymentIntent
                           = ev.paymentIntent}
      i == IF byMeta # 0 THEN byMeta
           ELSE IF bySession # 0 THEN bySession
           ELSE IF hits = {} THEN 0 ELSE First(hits)
  IN IF i = 0 \/ ords[i].latestStripeEventId = ctx.eventId THEN Handled(ords, sbs, 0)
     ELSE Handled(
            [ords EXCEPT ![i] =
               Stamp([@ EXCEPT !.stripePaymentIntentId = ev.paymentIntent,
                               !.stripeCustomerId =
                                  IF @ = None /\ pi.customer # None THEN pi.customer ELSE @],
                     ctx)],
            sbs, 0)

\* Strategy 4 of 'payment_intent.payment_failed': the first pending order whose
\* session has the payment intent or names the order in its metadata is
\* written without looking at its last event id; else the sessions the
\* processor lists for the customer.
PaymentFailedByCustomer(ords, ev, pi, update, ctx) ==
  LET withCustomer == PendingAtCheckout(ords, {pi.customer})
      pending == IF withCustomer # {} THEN withCustomer ELSE PendingAtCheckout(ords, {None})
      matches == {i \in pending :
                    /\ ords[i].stripeSessionId \in DOMAIN StripeSessions
                    /\ \/ StripeSessions[ords[i].stripeSessionId].paymentIntent
                            = ev.paymentIntent
                       \/ StripeSessions[ords[i].stripeSessionId].orderId = ords[i].id}
      listed == {cs \in StripeSessionsOf(pi.customer) :
                   /\ StripeSessions[cs].paymentIntent = ev.paymentIntent
                   /\ StripeSessions[cs].orderId # 0
                   /\ MatchOrder(ords, Lookup(StripeSessions[cs].orderId, cs, None, None, None))
                        # 0}
  IN IF matches # {}
       THEN [orders |-> [ords EXCEPT ![First(matches)] = Stamp(Assign(@, update), ctx)],
             idx |-> First(matches)]
     ELSE IF listed # {}
       THEN LET cs == CHOOSE c \in listed : TRUE
            IN UpdateOrderByLookup(ords, Lookup(StripeSessions[cs].orderId, cs, None, None, None),
                                   update, ctx)
     ELSE [orders |-> ords, idx |-> 0]

\* case 'payment_intent.payment_failed' (the payment intent was retrieved)
PaymentIntentPaymentFailed(ords, sbs, ev, ctx) ==
  LET pi == StripePaymentIntents[ev.paymentIntent]
      update == [status |-> "cancelled", paymentStatus |-> "failed",
                 stripePaymentIntentId |-> ev.paymentIntent,
                 stripeCustomerId |-> pi.customer]
      \* if (!updated && applies) updated = await updateOrderByLookup(lookup, ...)
      OrElse(updated, applies, lookup) ==
        IF updated.idx = 0 /\ applies
          THEN UpdateOrderByLookup(ords, lookup, update, ctx) ELSE updated
      OrElseByCustomer(updated) ==
        IF updated.idx = 0 /\ pi.customer # None
          THEN PaymentFailedByCustomer(ords, ev, pi, update, ctx) ELSE updated
      Synced(updated) ==
        SyncAfter(updated, sbs,
          SyncOptions("past_due",
                      IF updated.idx # 0 THEN updated.orders[updated.idx].stripeSubscriptionId
                      ELSE None,
                      0))
      r1 == UpdateOrderByLookup(ords, Lookup(0, None, None, None, ev.paymentIntent), update, ctx)
      r2 == OrElse(r1, pi.session # None, Lookup(0, pi.session, None, None, None))
      r3 == OrElse(r2, pi.orderId # 0, Lookup(pi.orderId, None, None, None, None))
      r35 == OrElse(r3, pi.invoice # None /\ StripeInvoiceOrderId(pi.invoice) # 0,
                    Lookup(StripeInvoiceOrderId(pi.invoice), None, None, None, None))
      r4 == OrElseByCustomer(r35)
      s == Synced(r4)
  IN Handled(s.orders, s.subs, 0)

\* processStripeEvent.  `reachable`: the processor answers the retrieve of a
\* payment intent; when it does not, the payment-intent cases stop there.
ProcessStripeEvent(ords, sbs, ev, ctx, reachable) ==
  CASE ev.type = "checkout.session.completed" -> CheckoutSessionCompleted(ords, sbs, ev, ctx)
    [] ev.type = "checkout.session.async_payment_failed" ->
         CheckoutSessionAsyncPaymentFailed(ords, sbs, ev, ctx)
    [] ev.type = "payment_intent.created" ->
         IF reachable THEN PaymentIntentCreated(ords, sbs, ev, ctx) ELSE Handled(ords, sbs, 0)
    [] ev.type = "payment_intent.payment_failed" ->
         IF reachable THEN PaymentIntentPaymentFailed(ords, sbs, ev, ctx)
         ELSE Handled(ords, sbs, 0)
    [] ev.type = "invoice.payment_succeeded" -> InvoicePaymentSucceeded(ords, sbs, ev, ctx)
    [] ev.type = "invoice.payment_failed" -> InvoicePaymentFailed(ords, sbs, ev, ctx)
    [] ev.type \in {"customer.subscription.created", "customer.subscription.updated"} ->
         CustomerSubscriptionUpdated(ords, sbs, ev, ctx)
    [] ev.type = "customer.subscription.deleted" -> CustomerSubscriptionDeleted(ords, sbs, ev, ctx)
    [] OTHER -> Handled(ords, sbs, 0)

\* ------------------------------------------------------------------ actions

\* The plan a checkout in subscription mode is opened for.
CheckoutPlan ==
  [planName |-> "plan", metal |-> "gold", targetWeight |-> 3 * WeightScale, targetUnit |-> "g"]

\* POST /create-session for the authenticated user: the order is created
\* pending, the session is opened, the order takes the session's id.
CreateSession(cs) ==
  /\ FindFirst(orders, "stripeSessionId", cs) = 0
  /\ orders' = Append(orders,
       [id |-> StripeSessions[cs].orderId, user |-> "u1", subscriptionId |-> 0,
        orderType |-> IF StripeSessions[cs].mode = "payment" THEN "one_time"
                      ELSE "subscription",
        amountInMinor |-> 1000, status |-> "pending", paymentStatus |-> "pending",
        invoiceStatus |-> "none", stripeSessionId |-> cs, stripeCustomerId |-> None,
        stripeSubscriptionId |-> None, stripeInvoiceId |-> None,
        stripePaymentIntentId |-> None, latestStripeEvent |-> "checkout.session.created",
        latestStripeEventId |-> None, latestStripeEventReceivedAt |-> 0,
        config |-> IF StripeSessions[cs].mode = "payment" THEN None ELSE CheckoutPlan])
  /\ last' = [op |-> "createSession"]
  /\ UNCHANGED <<subs, users, requests, cancellations, prices, canceled, now, applied, accrued, credits, txn>>

\* The event types whose case reads or writes the database.
StoredEventTypes ==
  {"checkout.session.completed", "checkout.session.async_payment_failed",
   "payment_intent.created", "payment_intent.payment_failed",
   "invoice.payment_succeeded", "invoice.payment_failed",
   "customer.subscription.created", "customer.subscription.updated",
   "customer.subscription.deleted"}

\* The event types whose case first retrieves the payment intent.
RetrievingEventTypes == {"payment_intent.created", "payment_intent.payment_failed"}

\* What can go wrong inside processStripeEvent: nothing, or its first database
\* call throws (nothing was written yet).
DeliverFaults == {"none", "database"}

\* POST /webhook without a valid stripe-signature: answered 400 before
\* processStripeEvent is called.
RejectDelivery ==
  /\ last' = [op |-> "reject", response |-> 400]
  /\ UNCHANGED <<orders, subs, users, requests, cancellations, prices, canceled, now, applied, accrued,
                 credits, txn>>

\* POST /webhook with a verified event: one run of processStripeEvent, answered
\* 200 when it returns and 500 when it throws.
Deliver(e, reachable, fault) ==
  \E h \in {IF fault = "none"
              THEN ProcessStripeEvent(orders, subs, Events[e], StripeEventContext(e, now + 1),
                                      reachable)
              ELSE Handled(orders, subs, 0)} :
     /\ now < MaxDeliveries
     /\ fault # "none" => (reachable /\ Events[e].type \in StoredEventTypes)
     /\ ~reachable => Events[e].type \in RetrievingEventTypes
     /\ orders' = h.orders
     /\ subs' = h.subs
     /\ now' = now + 1
     /\ applied' = applied \cup
          {<<i, e>> : i \in {j \in 1..Len(h.orders) : h.orders[j].latestStripeEventId = e}}
     /\ accrued' = IF h.paidInto # 0 THEN accrued \cup {<<h.paidInto, e, now + 1>>}
                    ELSE accrued
     /\ last' = [op |-> "deliver", e |-> e, again |-> last.op = "deliver" /\ last.e = e,
                  retrieved |-> reachable,
                  response |-> IF fault = "none" THEN 200 ELSE 500]
     /\ UNCHANGED <<users, requests, cancellations, prices, canceled, credits, txn>>

\* The statuses in which a withdrawal request blocks a new one.
ActiveStatuses == {"pending", "in_review", "approved", "processing"}

\* tolerance = 0.0001 of a unit, in the model's weight grain
Tolerance == WeightScale \div 10000

Abs(x) == IF x < 0 THEN 0 - x ELSE x

\* The weights a user asks for: the weight one payment buys, in either unit.
RequestedWeights ==
  {<<2 * WeightScale, "g">>, <<convertWeight(2 * WeightScale, "g", "oz"), "oz">>}

\* createWithdrawalRequest without the comparison of the weights.
CreateWithdrawalResponseUnchecked(reqs, sbs, userId, sid, weight, unit) ==
  IF sid = 0 THEN 201
  ELSE IF sid \notin 1..Len(sbs) THEN 404
  ELSE IF sbs[sid].userId # userId THEN 403
  ELSE IF sbs[sid].status \notin {"active", "trialing"} THEN 400
  ELSE IF \E r \in DOMAIN reqs :
            reqs[r].subscriptionId = sid /\ reqs[r].status \in ActiveStatuses
    THEN 400
  ELSE 201

\* The status createWithdrawalRequest answers with: 201 when the request is
\* stored, else the status of the refusal.  `sid` 0: no subscriptionId in the
\* body.
CreateWithdrawalResponse(reqs, sbs, userId, sid, weight, unit) ==
  IF sid = 0 THEN 201
  ELSE IF sid \notin 1..Len(sbs) THEN 404
  ELSE IF sbs[sid].userId # userId THEN 403
  ELSE IF sbs[sid].status \notin {"active", "trialing"} THEN 400
  ELSE IF \E r \in DOMAIN reqs :
            reqs[r].subscriptionId = sid /\ reqs[r].status \in ActiveStatuses
    THEN 400
  ELSE IF Abs(convertWeight(weight, unit, sbs[sid].targetUnit) - sbs[sid].accumulatedWeight)
            > Tolerance
    THEN 400
  ELSE 201

\* createWithdrawalRequest by the authenticated user `userId`; a request that
\* is refused (404, 403, 400) stores nothing.
CreateWithdrawalRequest(userId, sid, metal, weight, unit) ==
  \E response \in {CreateWithdrawalResponse(requests, subs, userId, sid, weight, unit)} :
     LET rid == Cardinality(DOMAIN requests) + 1 IN
     /\ response = 201 => rid \in StoredRequestIds
     /\ requests' =
          IF response # 201 THEN requests
          ELSE [r \in DOMAIN requests \cup {rid} |->
                  IF r = rid
                    THEN [userId |-> userId, subscriptionId |-> sid, metal |-> metal,
                          requestedWeight |-> weight, requestedUnit |-> unit,
                          status |-> "pending"]
                    ELSE requests[r]]
     /\ last' = [op |-> "createRequest", rid |-> IF response = 201 THEN rid ELSE 0,
                  response |-> response, sid |-> sid, weight |-> weight, unit |-> unit]
     /\ UNCHANGED <<orders, subs, users, cancellations, prices, canceled, now, applied,
                    accrued, credits, txn>>

\* The statuses an admin moves a request to (in_review and processing are
\* handled as pending is).
AdminStatuses == {"pending", "approved", "rejected", "completed"}

\* updateWithdrawalRequest by an admin with body {status}: the request is
\* saved with the new status; a change to approved from another status then
\* runs the settlement, whose failure does not fail the update: the answer
\* is res.json({ request }).  A fault or a processor answer that the run does
\* not get to is taken as none.
UpdateWithdrawalRequest(rid, status, fault, outcome) ==
  /\ rid \in DOMAIN requests
  /\ LET saved == [requests EXCEPT ![rid].status = status]
         settles == status # requests[rid].status /\ status = "approved"
         r == ProcessWithdrawalApproval(saved, rid, fault, outcome)
         ok == settles /\ r.success
     IN /\ ok => credits[rid] < MaxSettlements
        /\ (settles /\ r.error = "exception") \/ fault = "none"
        /\ (settles /\ r.cancelCalled) \/ outcome = "verified"
        /\ requests' = saved
        /\ subs' = IF settles THEN r.subs ELSE subs
        /\ users' = IF settles THEN r.users ELSE users
        /\ canceled' = IF settles /\ r.cancelCalled /\ outcome = "verified"
                         THEN canceled \cup
                                {subs[saved[rid].subscriptionId].stripeSubscriptionId}
                         ELSE canceled
        /\ credits' = IF ok THEN [credits EXCEPT ![rid] = @ + 1] ELSE credits
        /\ last' = [op |-> "updateRequest", rid |-> rid, settles |-> settles, success |-> ok,
                     cancelCalled |-> settles /\ r.cancelCalled,
                     outcome |-> IF settles /\ r.cancelCalled THEN outcome ELSE None,
                     response |-> 200]
  /\ UNCHANGED <<orders, cancellations, prices, now, applied, accrued, txn>>

\* ------------------------------------------------- cancellation requests

CancellationStatuses == {"pending", "approved", "rejected"}

\* The subscription marked canceled only when the processor confirmed the
\* cancel.
MarkCanceledIfVerified(sub, outcome) ==
  IF outcome = "verified" THEN [sub EXCEPT !.status = "canceled"] ELSE sub

\* The subscription as an approved cancellation leaves it: canceled, whatever
\* the processor answered to the cancel and its verification.
MarkCanceled(sub, outcome) == [sub EXCEPT !.status = "canceled"]

\* The body asks for approved, whatever the recorded status.
AsksForApproved(newStatus, originalStatus) == newStatus = "approved"

\* isChangingToApproved: the body carries a status other than the recorded one,
\* and it is approved.
ChangesToApproved(newStatus, originalStatus) ==
  newStatus # None /\ newStatus # originalStatus /\ newStatus = "approved"

\* Who calls updateCancellationRequest: an admin, the owner of the request, or
\* another user.
Callers == {"admin", "owner", "other"}

\* updateCancellationRequest on request `cid` by `caller`, with body {status}
\* (None: no status in the body).  An absent request is answered 404, a caller
\* who is neither the owner nor an admin 403.  Only an admin's status is
\* applied.  A change to approved by an admin cancels the request's
\* subscription at the processor when it has an external id, and marks it
\* canceled whatever the processor answered (`outcome`).  An answer of the
\* processor the run does not get to is taken as "verified".
UpdateCancellationRequest(cid, caller, status, outcome) ==
  LET present == cid \in DOMAIN cancellations
      isAdminUser == caller = "admin"
      response == IF ~present THEN 404 ELSE IF caller = "other" THEN 403 ELSE 200
      before == IF present THEN cancellations[cid].status ELSE None
      isChangingToApproved ==
        response = 200 /\ isAdminUser /\ ChangesToApproved(status, before)
      sid == IF present THEN cancellations[cid].subscriptionId ELSE 0
      found == isChangingToApproved /\ sid \in 1..Len(subs)
      called == found /\ subs[sid].stripeSubscriptionId # None
  IN /\ called \/ outcome = "verified"
     /\ response # 200 => status = None
     /\ cancellations' =
          IF response = 200 /\ isAdminUser /\ status # None
            THEN [cancellations EXCEPT ![cid].status = status] ELSE cancellations
     /\ subs' = IF found THEN [subs EXCEPT ![sid] = MarkCanceled(subs[sid], outcome)]
                ELSE subs
     /\ canceled' = IF called /\ outcome = "verified"
                      THEN canceled \cup {subs[sid].stripeSubscriptionId} ELSE canceled
     /\ last' = [op |-> "updateCancellation", cid |-> cid, caller |-> caller,
                  status |-> status, before |-> before, sid |-> sid,
                  cancelCalled |-> called, outcome |-> IF called THEN outcome ELSE None,
                  response |-> response]
     /\ UNCHANGED <<orders, users, requests, prices, now, applied, accrued, credits, txn>>

\* ------------------------------------------------- checkout-session cleanup

\* What stripe.checkout.sessions.retrieve answers for a session: its status
\* ("unpaid" and "paid" are complete sessions), or resource_missing.
SessionStates == {"open", "expired", "unpaid", "paid", "missing"}

\* What stripe.paymentIntents.retrieve answers: a status, or resource_missing.
IntentStates == {"processing", "requires_payment_method", "succeeded", "missing"}

\* Order.find of the stale checkout sessions, among the orders `old` created
\* before the expiry time.
StaleOrders(ords, old) ==
  {i \in old : /\ ords[i].latestStripeEvent = "checkout.session.created"
               /\ ords[i].status = "pending"
               /\ ords[i].stripeSessionId # None}

\* Order.find of the pending orders with a payment intent.
OrdersWithPaymentIntents(ords, old) ==
  {i \in old : /\ ords[i].stripePaymentIntentId # None
               /\ ords[i].status = "pending"
               /\ ords[i].paymentStatus = "pending"}

\* The first loop marking a paid session on the status alone.
CleanupSessionStatusOnly(order, state) ==
  LET session == StripeSessions[order.stripeSessionId]
      Keep(field, value) == IF value # None THEN value ELSE order[field]
  IN CASE state = "expired" ->
            [order EXCEPT !.status = "cancelled", !.paymentStatus = "failed",
                          !.latestStripeEvent = "checkout.session.expired"]
       [] state = "unpaid" ->
            [order EXCEPT !.status = "cancelled", !.paymentStatus = "failed",
                          !.latestStripeEvent = "checkout.session.completed.unpaid"]
       [] state = "paid" ->
            [order EXCEPT !.status = "paid",
                          !.latestStripeEvent = "checkout.session.completed.paid",
                          !.stripeCustomerId = Keep("stripeCustomerId", session.customer),
                          !.stripePaymentIntentId =
                             Keep("stripePaymentIntentId", session.paymentIntent),
                          !.stripeSubscriptionId =
                             Keep("stripeSubscriptionId", session.subscription)]
       [] state = "missing" ->
            [order EXCEPT !.status = "cancelled", !.paymentStatus = "failed",
                          !.latestStripeEvent = "checkout.session.not_found"]
       [] OTHER -> order

\* One pass of the first loop over an order and its retrieved session.
CleanupSession(order, state) ==
  LET session == StripeSessions[order.stripeSessionId]
      Keep(field, value) == IF value # None THEN value ELSE order[field]
  IN CASE state = "expired" ->
            [order EXCEPT !.status = "cancelled", !.paymentStatus = "failed",
                          !.latestStripeEvent = "checkout.session.expired"]
       [] state = "unpaid" ->
            [order EXCEPT !.status = "cancelled", !.paymentStatus = "failed",
                          !.latestStripeEvent = "checkout.session.completed.unpaid"]
       [] state = "paid" ->
            [order EXCEPT !.status = "paid", !.paymentStatus = "succeeded",
                          !.latestStripeEvent = "checkout.session.completed.paid",
                          !.stripeCustomerId = Keep("stripeCustomerId", session.customer),
                          !.stripePaymentIntentId =
                             Keep("stripePaymentIntentId", session.paymentIntent),
                          !.stripeSubscriptionId =
                             Keep("stripeSubscriptionId", session.subscription)]
       [] state = "missing" ->
            [order EXCEPT !.status = "cancelled", !.paymentStatus = "failed",
                          !.latestStripeEvent = "checkout.session.not_found"]
       [] OTHER -> order

\* One pass of the second loop over an order and its retrieved payment intent.
CleanupIntent(order, state) ==
  LET pi == StripePaymentIntents[order.stripePaymentIntentId]
      customer == IF order.stripeCustomerId = None /\ pi.customer # None
                    THEN pi.customer ELSE order.stripeCustomerId
  IN CASE state = "requires_payment_method" ->
            [order EXCEPT !.status = "cancelled", !.paymentStatus = "failed",
                          !.latestStripeEvent = "payment_intent.failed.cleanup",
                          !.stripeCustomerId = customer]
       [] state = "succeeded" ->
            [order EXCEPT !.status = "paid", !.paymentStatus = "succeeded",
                          !.latestStripeEvent = "payment_intent.succeeded.cleanup",
                          !.stripeCustomerId = customer]
       [] state = "missing" ->
            [order EXCEPT !.status = "cancelled", !.paymentStatus = "failed",
                          !.latestStripeEvent = "payment_intent.not_found"]
       [] OTHER -> order

\* What a retrieve can end with in a run of the job: an answer of the
\* processor, or an error that is not resource_missing.
SessionAnswers == {"open", "expired", "missing", "error"}
IntentAnswers == {"processing", "requires_payment_method", "missing", "error"}

\* The run has nothing to check and returns before its loops and before the
\* deletion.
NothingToCheck(ords, old) ==
  StaleOrders(ords, old) \cup OrdersWithPaymentIntents(ords, old) = {}

\* order.save() of order `failing` rejects (0: no save rejects).  Inside the
\* try block the rejection is caught with the order; inside the catch block
\* that handles resource_missing it leaves the loop and the run: 1 when
\* the first loop is left, 2 when the second is, 0 when the run goes on.
LeftAt(ords, old, remote, intent, failing) ==
  IF failing \in StaleOrders(ords, old) /\ remote[ords[failing].stripeSessionId] = "missing"
    THEN 1
  ELSE IF failing \in OrdersWithPaymentIntents(ords, old) /\ intent = "missing" THEN 2
  ELSE 0

\* The orders after both loops; the two lists are read before the first loop
\* and walked in natural order.
CleanedOrders(ords, old, remote, intent, failing) ==
  LET stale == StaleOrders(ords, old)
      withIntent == OrdersWithPaymentIntents(ords, old)
      left == LeftAt(ords, old, remote, intent, failing)
      first == [i \in 1..Len(ords) |->
                  IF i \in stale /\ i # failing /\ (left = 1 => i < failing)
                    THEN CleanupSession(ords[i], remote[ords[i].stripeSessionId])
                    ELSE ords[i]]
  IN [i \in 1..Len(ords) |->
        IF i \in withIntent /\ left # 1 /\ i # failing /\ (left = 2 => i < failing)
          THEN CleanupIntent(first[i], intent) ELSE first[i]]

\* Order.find of the orders to delete: cancelled or failed, and not written
\* since the retention cutoff (`idle`); an order this run wrote is not idle.
OrdersToDelete(ords, cleaned, idle) ==
  {i \in idle : /\ cleaned[i] = ords[i]
                /\ (cleaned[i].status = "cancelled" \/ cleaned[i].paymentStatus = "failed")}

\* The documents of a collection that are left when `gone` are deleted, in
\* natural order.
Remaining(docs, gone) ==
  LET kept == (1..Len(docs)) \ gone
      Nth(n) == CHOOSE i \in kept : Cardinality({j \in kept : j <= i}) = n
  IN [n \in 1..Cardinality(kept) |-> docs[Nth(n)]]

\* A run that syncs the subscription of an order it marks paid, as the webhook
\* does for a paid invoice.
SubscriptionsSyncedByCleanup(sbs, ords, cleaned) ==
  LET paidNow == {i \in 1..Len(ords) : /\ cleaned[i].status = "paid"
                                       /\ ords[i].status # "paid"
                                       /\ cleaned[i].orderType = "subscription"}
  IN IF paidNow = {} THEN sbs
     ELSE LET i == CHOOSE k \in paidNow : \A j \in paidNow : k <= j
          IN SyncSubscriptionFromOrder(cleaned, sbs, i,
               SyncOptions("active", cleaned[i].stripeSubscriptionId,
                           cleaned[i].amountInMinor)).subs

\* The subscriptions as a run leaves them: the job reads and saves orders and
\* makes no call on the Subscription model.
SubscriptionsAfterCleanup(sbs, ords, cleaned) == sbs

\* One run of runCheckoutSessionCleanup.  `oldest`: the orders 1..oldest were
\* created before the expiry time; `quiet`: none of them was written since the
\* retention cutoff; `remote`, `intent`: what the retrieves end with;
\* `failing`: the order whose save rejects (0: none).  An answer or a
\* rejection the run does not get to is taken as none, and so is `quiet`
\* when no order is cancelled or failed.
RunCheckoutSessionCleanup(oldest, quiet, remote, intent, failing) ==
  LET old == 1..oldest
      cleaned == CleanedOrders(orders, old, remote, intent, failing)
      gone == IF NothingToCheck(orders, old)
                   \/ LeftAt(orders, old, remote, intent, failing) # 0
                THEN {}
                ELSE OrdersToDelete(orders, cleaned, IF quiet THEN old ELSE {})
      kept == (1..Len(orders)) \ gone
  IN /\ oldest \in 0..Len(orders)
     /\ quiet => \E i \in old : orders[i].status = "cancelled" \/ orders[i].paymentStatus = "failed"
     /\ \A cs \in SessionIds :
          remote[cs] # "open" =>
            \E i \in old : orders[i].stripeSessionId = cs /\ orders[i].status = "pending"
     /\ intent # "processing" => OrdersWithPaymentIntents(orders, old) # {}
     /\ failing # 0 =>
          \/ /\ failing \in StaleOrders(orders, old)
             /\ remote[orders[failing].stripeSessionId] \notin {"open", "error"}
          \/ /\ failing \in OrdersWithPaymentIntents(orders, old)
             /\ intent \notin {"processing", "error"}
     /\ orders' = Remaining(cleaned, gone)
     /\ applied' = {<<Cardinality({j \in kept : j <= a[1]}), a[2]>> :
                      a \in {b \in applied : b[1] \in kept}}
     /\ last' = [op |-> "cleanup", oldest |-> oldest, quiet |-> quiet, remote |-> remote,
                  failing |-> failing]
     /\ subs' = SubscriptionsAfterCleanup(subs, orders, cleaned)
     /\ UNCHANGED <<users, requests, cancellations, prices, canceled, now, accrued, credits, txn>>

\* ----------------------------------------------------------- specification

\* The stored price of a metal per base unit, in minor units.
MetalPrices == [m \in Metals |-> IF m = "gold" THEN 500 ELSE 0]

Init ==
  /\ orders = <<>>
  /\ subs = <<>>
  /\ users = [u \in {"u1"} |-> [withdrawnGold |-> 0, withdrawnSilver |-> 0]]
  /\ requests = <<>>
  /\ cancellations = <<>>
  /\ prices = MetalPrices
  /\ canceled = {}
  /\ now = 0
  /\ last = [op |-> "init"]
  /\ applied = {}
  /\ accrued = {}
  /\ credits = [r \in RequestIds |-> 0]
  /\ txn = <<>>

Next ==
  \/ \E cs \in SessionIds : CreateSession(cs)
  \/ RejectDelivery
  \/ \E e \in EventIds, reachable \in BOOLEAN, fault \in DeliverFaults :
       Deliver(e, reachable, fault)
  \/ \E sid \in 1..Len(subs), w \in RequestedWeights :
       CreateWithdrawalRequest("u1", sid, "gold", w[1], w[2])
  \/ \E rid \in RequestIds, status \in AdminStatuses,
        fault \in SettleFaults, outcome \in CancelOutcomes :
       UpdateWithdrawalRequest(rid, status, fault, outcome)

Spec == Init /\ [][Next]_vars

\* -------------------------------------- billing events and the cleanup job

\* Checkouts, the deliveries that processStripeEvent handles to its end, and
\* runs of the cleanup job at a time when every stored order is older than
\* the expiry time.
NextCleanup ==
  \/ \E cs \in SessionIds : CreateSession(cs)
  \/ \E e \in EventIds : Deliver(e, TRUE, "none")
  \/ \E oldest \in {Len(orders)}, quiet \in BOOLEAN,
        remote \in [SessionIds -> SessionStates], intent \in IntentStates :
       RunCheckoutSessionCleanup(oldest, quiet, remote, intent, 0)

SpecCleanup == Init /\ [][NextCleanup]_vars

\* ------------------------------------------- the cleanup job and its faults

\* The events delivered beside the job: those that leave an order paid,
\* pending with a failed payment, cancelled, or pending with a payment intent.
SweepEvents == {"evt_checkout", "evt_unpaid", "evt_sub_canceled", "evt_pi_created"}

NextSweep ==
  \/ \E cs \in SessionIds : CreateSession(cs)
  \/ \E e \in SweepEvents : Deliver(e, TRUE, "none")
  \/ \E oldest \in {Len(orders)}, quiet \in BOOLEAN,
        remote \in [SessionIds -> SessionAnswers], intent \in IntentAnswers,
        failing \in 0..Len(orders) :
       RunCheckoutSessionCleanup(oldest, quiet, remote, intent, failing)

SpecSweep == Init /\ [][NextSweep]_vars

\* ------------------------------------------- billing events and order lookup

\* The lookups updateOrderByLookup is called with: every combination of an
\* absent or present key, over the identifiers the processor hands out and
\* an order id no order has.
LookupInputs ==
  {Lookup(o, s, sub, inv, pi) :
     o \in {0, 2, 9}, s \in SessionIds \cup {None}, sub \in {None, "sub_A"},
     inv \in {None, "in_1"}, pi \in {None, "pi_1"}}

\* The update of a paid checkout, as the handlers pass it.
LookupUpdates == [status |-> "paid", paymentStatus |-> "succeeded"]

\* The event a lookup is made for.
LookupEvents == {"evt_checkout"}

\* One call of updateOrderByLookup(lookup, updates, context).
FindOrder(lookup, e) ==
  \E r \in {UpdateOrderByLookup(orders, lookup, LookupUpdates,
                                 StripeEventContext(e, now + 1))} :
     /\ now < MaxDeliveries
     /\ orders' = r.orders
     /\ now' = now + 1
     /\ applied' = applied \cup
          {<<i, e>> : i \in {j \in 1..Len(r.orders) : r.orders[j].latestStripeEventId = e}}
     /\ last' = [op |-> "lookup", lookup |-> lookup, e |-> e, idx |-> r.idx,
                  alerts |-> r.alerts]
     /\ UNCHANGED <<subs, users, requests, cancellations, prices, canceled, accrued, credits, txn>>

NextLookup ==
  \/ \E cs \in SessionIds : CreateSession(cs)
  \/ \E e \in EventIds, reachable \in BOOLEAN : Deliver(e, reachable, "none")
  \/ \E lookup \in LookupInputs, e \in LookupEvents : FindOrder(lookup, e)

SpecLookup == Init /\ [][NextLookup]_vars

\* ------------------------------------------- the requests of users and admins

\* The weights a user asks for against a balance of 0, 1, 2 or 65 units.
DeskWeights ==
  {<<WeightScale, "g">>, <<2 * WeightScale, "g">>, <<2 * WeightScale + 1, "g">>,
   <<3 * WeightScale, "g">>, <<2 * WeightScale, "oz">>}

\* The stored subscription: its balance, unit, status and external id vary.
DeskSubscriptions ==
  [userId : {"u1"}, stripeCustomerId : {"cus_A"}, stripeSubscriptionId : {None, "sub_A"},
   metal : {"gold"}, planName : {"plan"}, targetWeight : {2 * WeightScale},
   targetUnit : Units,
   accumulatedValue : {3000},
   accumulatedWeight : {0, WeightScale, 2 * WeightScale, 65 * WeightScale},
   status : {"active", "past_due"}]

\* The stored cancellation request.
DeskCancellations ==
  [userId : {"u1"}, subscriptionId : {0, 1}, status : CancellationStatuses]

InitDesk ==
  /\ orders = <<>>
  /\ subs \in {<<s>> : s \in DeskSubscriptions}
  /\ users = [u \in {"u1"} |-> [withdrawnGold |-> 0, withdrawnSilver |-> 0]]
  /\ requests = <<>>
  /\ cancellations \in {[c \in {1} |-> x] : x \in DeskCancellations}
  /\ prices = [m \in Metals |-> 0]
  /\ canceled = {}
  /\ now = 0
  /\ last = [op |-> "init"]
  /\ applied = {}
  /\ accrued = {}
  /\ credits = [r \in RequestIds |-> 0]
  /\ txn = <<>>

NextDesk ==
  \/ \E sid \in 0..2, w \in DeskWeights :
       CreateWithdrawalRequest("u1", sid, "gold", w[1], w[2])
  \/ \E rid \in RequestIds, status \in AdminStatuses,
        fault \in SettleFaults, outcome \in CancelOutcomes :
       UpdateWithdrawalRequest(rid, status, fault, outcome)
  \/ \E cid \in 1..2, caller \in Callers, status \in CancellationStatuses \cup {None},
        outcome \in CancelOutcomes :
       UpdateCancellationRequest(cid, caller, status, outcome)

SpecDesk == InitDesk /\ [][NextDesk]_vars

\* ------------------------------------- cancellation beside billing events

\* The cancellation requests the store comes to hold.
MaxCancellations == 1

\* createCancellationRequest by user `userId` for subscription `sid`: the
\* request is stored as given, in status pending.
CreateCancellationRequest(userId, sid) ==
  /\ Len(cancellations) < MaxCancellations
  /\ cancellations' = Append(cancellations,
       [userId |-> userId, subscriptionId |-> sid, status |-> "pending"])
  /\ last' = [op |-> "createCancellation", sid |-> sid, response |-> 201]
  /\ UNCHANGED <<orders, subs, users, requests, prices, canceled, now, applied, accrued, credits, txn>>

\* A subscription checkout, the deliveries that processStripeEvent handles to
\* its end, a cancellation request for a stored subscription and its approval
\* by an admin.
NextTerminal ==
  \/ CreateSession("cs_sub")
  \/ \E e \in EventIds : Deliver(e, TRUE, "none")
  \/ \E sid \in 1..Len(subs) : CreateCancellationRequest("u1", sid)
  \/ \E cid \in 1..Len(cancellations), outcome \in CancelOutcomes :
       UpdateCancellationRequest(cid, "admin", "approved", outcome)

SpecTerminal == Init /\ [][NextTerminal]_vars

\* ------------------------------------------- sync, called on any state
\* syncSubscriptionFromOrder on the orders and subscriptions a user who buys
\* the plan once or twice can have, at any stored price.

\* The external subscription ids: the one the order's session carries and the
\* one of an earlier purchase.
SyncExternalIds == {"sub_A", "sub_B"}

SyncSubscriptions ==
  [userId : {"u1", "u2"}, stripeCustomerId : {"cus_A"},
   stripeSubscriptionId : {None} \cup SyncExternalIds,
   metal : {"gold"}, planName : {"plan"}, targetWeight : {3 * WeightScale},
   targetUnit : {"g"},
   accumulatedValue : {3000},
   accumulatedWeight : {0, WeightScale},
   status : {"active", "pending_payment"}]

\* The order of the plan after the webhook has stored the session's customer
\* and, when the session carries one, its subscription.
SyncOrder(stripeSubscriptionId, subscriptionId) ==
  [id |-> 1, user |-> "u1", subscriptionId |-> subscriptionId,
   orderType |-> "subscription",
   amountInMinor |-> 1000, status |-> "paid", paymentStatus |-> "succeeded",
   invoiceStatus |-> "none", stripeSessionId |-> "cs_sub", stripeCustomerId |-> "cus_A",
   stripeSubscriptionId |-> stripeSubscriptionId, stripeInvoiceId |-> None,
   stripePaymentIntentId |-> None, latestStripeEvent |-> "checkout.session.completed",
   latestStripeEventId |-> "evt_checkout", latestStripeEventReceivedAt |-> 0,
   config |-> CheckoutPlan]

\* The stored prices: none or zero (0), negative, positive.
SyncPrices == {0, -5, 500}

\* The largest accumulatedValue the syncs of a run add up to.
MaxSyncValue == 5000

\* No two subscriptions carry the same external id; an order that is linked
\* is linked to a subscription of its user that carries the order's external
\* id, as the sync that linked it left them.
InitSync ==
  /\ subs \in {<<>>} \cup {<<s>> : s \in SyncSubscriptions}
                    \cup {<<s, t>> : s \in SyncSubscriptions, t \in SyncSubscriptions}
  /\ \A i \in 1..Len(subs), j \in 1..Len(subs) :
        (i # j /\ subs[i].stripeSubscriptionId # None) =>
          subs[i].stripeSubscriptionId # subs[j].stripeSubscriptionId
  /\ \E sid \in {None, "sub_A"}, link \in 0..Len(subs) :
        /\ link # 0 => /\ subs[link].userId = "u1"
                       /\ subs[link].stripeSubscriptionId = sid
        /\ orders = <<SyncOrder(sid, link)>>
  /\ users = [u \in {"u1"} |-> [withdrawnGold |-> 0, withdrawnSilver |-> 0]]
  /\ requests = <<>>
  /\ cancellations = <<>>
  /\ prices \in {[m \in Metals |-> IF m = "gold" THEN p ELSE 0] : p \in SyncPrices}
  /\ canceled = {}
  /\ now = 0
  /\ last = [op |-> "init"]
  /\ applied = {}
  /\ accrued = {}
  /\ credits = [r \in RequestIds |-> 0]
  /\ txn = <<>>

\* One call syncSubscriptionFromOrder(order 1, {status, stripeSubscriptionId,
\* accumulatedValueDelta}).
Sync(status, stripeSubscriptionId, valueDelta) ==
  \E r \in {SyncSubscriptionFromOrder(orders, subs, 1,
               SyncOptions(status, stripeSubscriptionId, valueDelta))} :
    /\ r.subs[r.sub].accumulatedValue <= MaxSyncValue
    /\ orders' = r.orders
    /\ subs' = r.subs
    /\ last' = [op |-> "sync", sub |-> r.sub, status |-> status, valueDelta |-> valueDelta,
                 stripeSubscriptionId |->
                   IF orders[1].stripeSubscriptionId # None
                     THEN orders[1].stripeSubscriptionId ELSE stripeSubscriptionId,
                 created |-> r.sub > Len(subs)]
    /\ UNCHANGED <<users, requests, cancellations, prices, canceled, now, applied, accrued,
                   credits, txn>>

NextSync ==
  \E status \in {None, "active", "past_due"}, sid \in {None, "sub_A"},
     valueDelta \in {0, 1000} :
    Sync(status, sid, valueDelta)

SpecSync == InitSync /\ [][NextSync]_vars

\* ------------------------------------------- subscription events of any status
\* customer.subscription.created and customer.subscription.updated for every
\* status the processor has, beside the checkout they follow.

\* Stripe.Subscription.Status
SubscriptionStatuses ==
  {"active", "trialing", "incomplete", "incomplete_expired", "past_due", "canceled",
   "unpaid", "paused"}

SubscriptionEventTypes == {"customer.subscription.created", "customer.subscription.updated"}

\* The event of type `type` for sub_A in status `status`, and its id.
SubscriptionEvent(type, status) ==
  Event(type, 1, None, "cus_A", "sub_A", None, None, 0, status)

SubscriptionEventId(type, status) ==
  (IF type = "customer.subscription.created" THEN "evt_created_" ELSE "evt_updated_")
    \o status

\* POST /webhook with a verified customer.subscription event.
DeliverSubscriptionEvent(type, status) ==
  \E h \in {CustomerSubscriptionUpdated(orders, subs, SubscriptionEvent(type, status),
               [eventId |-> SubscriptionEventId(type, status), eventType |-> type,
                deliveredAt |-> now + 1])} :
     /\ now < MaxDeliveries
     /\ orders' = h.orders
     /\ subs' = h.subs
     /\ now' = now + 1
     /\ applied' = applied \cup
          {<<i, SubscriptionEventId(type, status)>> :
             i \in {j \in 1..Len(h.orders) :
                      h.orders[j].latestStripeEventId = SubscriptionEventId(type, status)}}
     /\ last' = [op |-> "deliverSubscription", e |-> SubscriptionEventId(type, status),
                  type |-> type, status |-> status, response |-> 200]
     /\ UNCHANGED <<users, requests, cancellations, prices, canceled, accrued, credits, txn>>

NextStatus ==
  \/ CreateSession("cs_sub")
  \/ Deliver("evt_checkout", TRUE, "none")
  \/ \E type \in SubscriptionEventTypes, status \in SubscriptionStatuses :
       DeliverSubscriptionEvent(type, status)

SpecStatus == Init /\ [][NextStatus]_vars

\* ------------------------------------------- every status an order is given
\* The checkout in subscription mode completed in every payment status, the
\* subscription updated to every status, the events that fail a payment and
\* the cleanup job.

\* session.payment_status of a completed session
PaymentStatuses == {"paid", "unpaid", "no_payment_required"}

CheckoutEventId(status) == "evt_checkout_" \o status

\* POST /webhook with a verified checkout.session.completed of cs_sub whose
\* payment_status is `status`.
DeliverCheckout(status) ==
  \E h \in {CheckoutSessionCompleted(orders, subs,
               Event("checkout.session.completed", 1, "cs_sub", "cus_A", "sub_A", "in_1",
                     None, 1000, status),
               [eventId |-> CheckoutEventId(status),
                eventType |-> "checkout.session.completed", deliveredAt |-> now + 1])} :
     /\ now < MaxDeliveries
     /\ orders' = h.orders
     /\ subs' = h.subs
     /\ now' = now + 1
     /\ applied' = applied \cup
          {<<i, CheckoutEventId(status)>> :
             i \in {j \in 1..Len(h.orders) :
                      h.orders[j].latestStripeEventId = CheckoutEventId(status)}}
     /\ last' = [op |-> "deliverCheckout", e |-> CheckoutEventId(status),
                  status |-> status, response |-> 200]
     /\ UNCHANGED <<users, requests, cancellations, prices, canceled, accrued, credits, txn>>

\* The events that fail or settle a payment after the checkout.
CoherenceEvents == {"evt_async", "evt_unpaid", "evt_pi_created", "evt_pi_failed"}

\* One status for each answer of mapSubscriptionStatus.
CoherenceStatuses == {"active", "canceled", "past_due"}

NextCoherence ==
  \/ \E cs \in SessionIds : CreateSession(cs)
  \/ \E status \in PaymentStatuses : DeliverCheckout(status)
  \/ \E e \in CoherenceEvents : Deliver(e, TRUE, "none")
  \/ \E status \in CoherenceStatuses :
       DeliverSubscriptionEvent("customer.subscription.updated", status)
  \/ \E oldest \in {Len(orders)}, quiet \in BOOLEAN,
        remote \in [SessionIds -> SessionStates], intent \in IntentStates :
       RunCheckoutSessionCleanup(oldest, quiet, remote, intent, 0)

SpecCoherence == Init /\ [][NextCoherence]_vars

\* ------------------------------------------- settlement, called on any state

SettleSubscriptions ==
  [userId : {"u1"}, stripeCustomerId : {"cus_A"}, stripeSubscriptionId : {None, "sub_A"},
   metal : {"gold"}, planName : {"plan"}, targetWeight : {2 * WeightScale},
   targetUnit : Units,
   accumulatedValue : {3000},
   accumulatedWeight : {0, WeightScale, 2 * WeightScale, 65 * WeightScale},
   status : {"active", "past_due"}]

SettleRequests ==
  [userId : {"u1", "u9"}, subscriptionId : {0, 1, 2}, metal : Metals,
   requestedWeight : {WeightScale, 2 * WeightScale}, requestedUnit : Units,
   status : WithdrawalStatuses]

InitSettle ==
  /\ orders = <<>>
  /\ subs \in {<<s>> : s \in SettleSubscriptions}
  /\ users = [u \in {"u1"} |-> [withdrawnGold |-> 0, withdrawnSilver |-> 0]]
  /\ requests \in {[r \in StoredRequestIds |-> w] : w \in SettleRequests}
  /\ cancellations = <<>>
  /\ prices = [m \in Metals |-> 0]
  /\ canceled = {}
  /\ now = 0
  /\ last = [op |-> "init"]
  /\ applied = {}
  /\ accrued = {}
  /\ credits = [r \in RequestIds |-> 0]
  /\ txn = <<>>

NextSettle ==
  \E rid \in RequestIds, fault \in SettleFaults, outcome \in CancelOutcomes :
    Settle(rid, fault, outcome)

SpecSettle == InitSettle /\ [][NextSettle]_vars

\* ------------------------------------------- settlement, step by step
\* The callers of processWithdrawalApproval that run at the same time.  Each
\* runs in a session of its own: its reads come from the snapshot taken at
\* its first read, its saves are held in the session until the commit, and a
\* save of a document that changed since the snapshot, or that another open
\* session has saved, fails with a write conflict.

Procs == {"a", "b"}

\* The request both callers settle.
ConcRequest == 1

InFlight == {"readRequest", "readSubscription", "cancel", "readUser",
             "saveSubscription", "saveUser", "commit"}

\* The stored documents as a session's snapshot.
Snapshot == [subs |-> subs, users |-> users, requests |-> requests]

\* session.abortTransaction and the typed failure returned.
Aborted(p, err) == [txn EXCEPT ![p].pc = "done", ![p].error = err, ![p].wrote = {}]

\* Another open session holds a save of `doc`.
HeldByOther(p, doc) ==
  \E q \in Procs \ {p} : txn[q].pc \in InFlight /\ doc \in txn[q].wrote

SessionSaveUnsessioned(coll, key, doc) == [coll EXCEPT ![key] = doc]

\* doc.save({session}): the stored collection before the commit.
SessionSave(coll, key, doc) == coll

\* mongoose.startSession, session.startTransaction
Begin(p) ==
  /\ txn[p].pc = "idle"
  /\ txn' = [txn EXCEPT ![p].pc = "readRequest"]
  /\ last' = [op |-> "begin", p |-> p]
  /\ UNCHANGED <<orders, subs, users, requests, cancellations, prices, canceled, now, applied, accrued,
                 credits>>

\* WithdrawalRequest.findById(...).session(session) and the checks on it
ReadRequest(p) ==
  /\ txn[p].pc = "readRequest"
  /\ txn' = IF RequestError(requests, ConcRequest) # None
              THEN Aborted(p, RequestError(requests, ConcRequest))
              ELSE [txn EXCEPT ![p].pc = "readSubscription", ![p].snap = Snapshot]
  /\ last' = [op |-> "readRequest", p |-> p]
  /\ UNCHANGED <<orders, subs, users, requests, cancellations, prices, canceled, now, applied, accrued,
                 credits>>

\* Subscription.findById(...).session(session), the checks on it, and the
\* deduction made on the document in memory
ReadSubscription(p) ==
  LET snap == txn[p].snap
      wr == snap.requests[ConcRequest]
      err == SubscriptionError(snap.requests, snap.subs, ConcRequest)
      sub == snap.subs[wr.subscriptionId]
  IN /\ txn[p].pc = "readSubscription"
     /\ txn' = IF err # None THEN Aborted(p, err)
               ELSE [txn EXCEPT
                       ![p].pc = IF IsCase2(sub) /\ sub.stripeSubscriptionId # None
                                   THEN "cancel" ELSE "readUser",
                       ![p].sub = SettledSubscription(sub, IsCase2(sub))]
     /\ last' = [op |-> "readSubscription", p |-> p]
     /\ UNCHANGED <<orders, subs, users, requests, cancellations, prices, canceled, now, applied, accrued,
                    credits>>

\* stripe.subscriptions.cancel and retrieve, inside the transaction
Cancel(p, outcome) ==
  /\ txn[p].pc = "cancel"
  /\ canceled' = IF outcome = "verified"
                   THEN canceled \cup {txn[p].sub.stripeSubscriptionId} ELSE canceled
  /\ txn' = [txn EXCEPT ![p].pc = "readUser"]
  /\ last' = [op |-> "cancel", p |-> p]
  /\ UNCHANGED <<orders, subs, users, requests, cancellations, prices, now, applied, accrued, credits>>

\* User.findById(...).session(session) and the credit made in memory
ReadUser(p) ==
  LET snap == txn[p].snap
      wr == snap.requests[ConcRequest]
  IN /\ txn[p].pc = "readUser"
     /\ txn' = IF wr.userId \notin DOMAIN snap.users THEN Aborted(p, "user not found")
               ELSE [txn EXCEPT ![p].pc = "saveSubscription",
                                ![p].user = CreditedUser(snap.users[wr.userId], wr)]
     /\ last' = [op |-> "readUser", p |-> p]
     /\ UNCHANGED <<orders, subs, users, requests, cancellations, prices, canceled, now, applied, accrued,
                    credits>>

\* subscription.save({session})
SaveSubscription(p) ==
  LET sid == txn[p].snap.requests[ConcRequest].subscriptionId IN
  /\ txn[p].pc = "saveSubscription"
  /\ IF HeldByOther(p, "subscription") \/ subs[sid] # txn[p].snap.subs[sid]
       THEN /\ txn' = Aborted(p, "write conflict")
            /\ subs' = subs
       ELSE /\ txn' = [txn EXCEPT ![p].pc = "saveUser", ![p].wrote = @ \cup {"subscription"}]
            /\ subs' = SessionSave(subs, sid, txn[p].sub)
  /\ last' = [op |-> "saveSubscription", p |-> p]
  /\ UNCHANGED <<orders, users, requests, cancellations, prices, canceled, now, applied, accrued, credits>>

\* user.save({session})
SaveUser(p) ==
  LET uid == txn[p].snap.requests[ConcRequest].userId IN
  /\ txn[p].pc = "saveUser"
  /\ IF HeldByOther(p, "user") \/ users[uid] # txn[p].snap.users[uid]
       THEN /\ txn' = Aborted(p, "write conflict")
            /\ users' = users
       ELSE /\ txn' = [txn EXCEPT ![p].pc = "commit", ![p].wrote = @ \cup {"user"}]
            /\ users' = SessionSave(users, uid, txn[p].user)
  /\ last' = [op |-> "saveUser", p |-> p]
  /\ UNCHANGED <<orders, subs, requests, cancellations, prices, canceled, now, applied, accrued, credits>>

\* session.commitTransaction: the session's saves reach the store together.
Commit(p) ==
  LET wr == txn[p].snap.requests[ConcRequest] IN
  /\ txn[p].pc = "commit"
  /\ subs' = [subs EXCEPT ![wr.subscriptionId] = txn[p].sub]
  /\ users' = [users EXCEPT ![wr.userId] = txn[p].user]
  /\ credits' = [credits EXCEPT ![ConcRequest] = @ + 1]
  /\ txn' = [txn EXCEPT ![p].pc = "done", ![p].error = None, ![p].wrote = {}]
  /\ last' = [op |-> "commit", p |-> p]
  /\ UNCHANGED <<orders, requests, cancellations, prices, canceled, now, applied, accrued>>

\* An awaited call of the open session throws: the catch block aborts.
Throw(p) ==
  /\ txn[p].pc \in InFlight
  /\ txn' = Aborted(p, "exception")
  /\ last' = [op |-> "throw", p |-> p]
  /\ UNCHANGED <<orders, subs, users, requests, cancellations, prices, canceled, now, applied, accrued,
                 credits>>

ConcSubscriptions ==
  [userId : {"u1"}, stripeCustomerId : {"cus_A"}, stripeSubscriptionId : {None, "sub_A"},
   metal : {"gold"}, planName : {"plan"}, targetWeight : {3 * WeightScale},
   targetUnit : {"g"}, accumulatedValue : {1000},
   accumulatedWeight : {2 * WeightScale, 3 * WeightScale}, status : {"active"}]

ConcRequests ==
  [userId : {"u1"}, subscriptionId : {1}, metal : {"gold"},
   requestedWeight : {2 * WeightScale}, requestedUnit : {"g"},
   status : {"approved", "pending"}]

InitConc ==
  /\ orders = <<>>
  /\ subs \in {<<s>> : s \in ConcSubscriptions}
  /\ users = [u \in {"u1"} |-> [withdrawnGold |-> 0, withdrawnSilver |-> 0]]
  /\ requests \in {[r \in StoredRequestIds |-> w] : w \in ConcRequests}
  /\ cancellations = <<>>
  /\ prices = MetalPrices
  /\ canceled = {}
  /\ now = 0
  /\ last = [op |-> "init"]
  /\ applied = {}
  /\ accrued = {}
  /\ credits = [r \in RequestIds |-> 0]
  /\ txn = [p \in Procs |->
              [pc |-> "idle", error |-> None, wrote |-> {},
               snap |-> Snapshot, sub |-> subs[1], user |-> users["u1"]]]

NextConc ==
  \E p \in Procs :
    \/ Begin(p)
    \/ ReadRequest(p)
    \/ ReadSubscription(p)
    \/ \E outcome \in CancelOutcomes : Cancel(p, outcome)
    \/ ReadUser(p)
    \/ SaveSubscription(p)
    \/ SaveUser(p)
    \/ Commit(p)
    \/ Throw(p)

SpecConc == InitConc /\ [][NextConc]_vars

\* ------------------------------------------- webhook runs that overlap
\* Two runs of processStripeEvent at the same time.  A run that goes through
\* syncSubscriptionFromOrder reads the subscription (Subscription.findOne)
\* and writes it later (subscription.save() or Subscription.create, then
\* order.save() for the link); what other runs and a settlement commit in
\* between is not read again.  subscription.save() writes the paths the run
\* has modified on its copy, with the values of its copy.

\* The events delivered at the same time.
RaceEvents == {"evt_checkout", "evt_sub", "evt_paid1", "evt_paid2"}

SubscriptionEventKinds ==
  {"customer.subscription.created", "customer.subscription.updated",
   "customer.subscription.deleted"}

\* Subscription.findOneAndUpdate of applyStripeSubscriptionEvent finds the
\* subscription: the run writes it in the same database call.
WritesAtOnce(sbs, ev) ==
  /\ ev.type \in SubscriptionEventKinds
  /\ FindFirst(sbs, "stripeSubscriptionId", ev.subscription) # 0

\* The orders of `after` with the link each had in `before`: the order has
\* been written, its link has not yet.
Unlinked(before, after) ==
  [i \in 1..Len(after) |->
     IF i <= Len(before) THEN [after[i] EXCEPT !.subscriptionId = before[i].subscriptionId]
     ELSE after[i]]

\* The orders whose link the run is going to write.
LinksOf(before, after) ==
  {i \in 1..Len(before) : after[i].subscriptionId # before[i].subscriptionId}

\* subscription.save() of a copy read as `before` and changed to `after`, on
\* the stored subscriptions `sbs`: the modified paths of the documents read,
\* then the documents created.
Saved(sbs, before, after) ==
  [k \in 1..Len(sbs) |->
     [f \in DOMAIN sbs[k] |->
        IF k <= Len(before) /\ after[k][f] # before[k][f] THEN after[k][f] ELSE sbs[k][f]]]
    \o SubSeq(after, Len(before) + 1, Len(after))

\* The stored index of the subscription the run calls `t`.
StoredIndex(sbs, before, t) ==
  IF t <= Len(before) THEN t ELSE Len(sbs) + (t - Len(before))

\* POST /webhook with event e, run by p up to the read of the subscription:
\* the order is written; a run that has nothing to save afterwards ends here.
Receive(p, e) ==
  \E h \in {ProcessStripeEvent(orders, subs, Events[e], StripeEventContext(e, now + 1), TRUE)} :
     LET atOnce == WritesAtOnce(subs, Events[e])
         pending == ~atOnce /\ (h.subs # subs \/ LinksOf(orders, h.orders) # {})
     IN /\ now < MaxDeliveries
        /\ txn[p].pc = "idle"
        /\ orders' = IF pending THEN Unlinked(orders, h.orders) ELSE h.orders
        /\ subs' = IF pending THEN subs ELSE h.subs
        /\ now' = now + 1
        /\ applied' = applied \cup
             {<<i, e>> : i \in {j \in 1..Len(h.orders) : h.orders[j].latestStripeEventId = e}}
        /\ accrued' = IF ~pending /\ h.paidInto # 0
                         THEN accrued \cup {<<h.paidInto, e, now + 1>>} ELSE accrued
        /\ txn' = [txn EXCEPT ![p] =
                     IF pending
                       THEN [pc |-> "read", e |-> e, at |-> now + 1, before |-> subs,
                             after |-> h.subs,
                             links |-> {<<i, h.orders[i].subscriptionId>> :
                                          i \in LinksOf(orders, h.orders)},
                             paidInto |-> h.paidInto, credits |-> credits]
                       ELSE [pc |-> "idle"]]
        /\ last' = [op |-> "receive", p |-> p, e |-> e, pending |-> pending]
        /\ UNCHANGED <<users, requests, cancellations, prices, canceled, credits>>

\* The rest of p's run: the subscription is saved or created, the order is
\* linked, the webhook is answered.
SaveSync(p) ==
  /\ txn[p].pc = "read"
  /\ LET w == txn[p] IN
     /\ subs' = Saved(subs, w.before, w.after)
     /\ orders' = [i \in 1..Len(orders) |->
                     IF \E l \in w.links : l[1] = i
                       THEN [orders[i] EXCEPT !.subscriptionId =
                               StoredIndex(subs, w.before,
                                           (CHOOSE l \in w.links : l[1] = i)[2])]
                       ELSE orders[i]]
     /\ accrued' = IF w.paidInto # 0
                      THEN accrued \cup {<<StoredIndex(subs, w.before, w.paidInto), w.e, w.at>>}
                      ELSE accrued
     /\ last' = [op |-> "saveSync", p |-> p, e |-> w.e,
                  sub |-> StoredIndex(subs, w.before, w.paidInto),
                  settled |-> credits # w.credits,
                  created |-> Len(w.after) > Len(w.before)]
  /\ txn' = [txn EXCEPT ![p] = [pc |-> "idle"]]
  /\ UNCHANGED <<users, requests, cancellations, prices, canceled, now, applied, credits>>

InitRace ==
  /\ orders = <<>>
  /\ subs = <<>>
  /\ users = [u \in {"u1"} |-> [withdrawnGold |-> 0, withdrawnSilver |-> 0]]
  /\ requests = <<>>
  /\ cancellations = <<>>
  /\ prices = MetalPrices
  /\ canceled = {}
  /\ now = 0
  /\ last = [op |-> "init"]
  /\ applied = {}
  /\ accrued = {}
  /\ credits = [r \in RequestIds |-> 0]
  /\ txn = [p \in Procs |-> [pc |-> "idle"]]

NextRace ==
  \/ CreateSession("cs_sub")
  \/ \E p \in Procs, e \in RaceEvents : Receive(p, e)
  \/ \E p \in Procs : SaveSync(p)
  \/ \E sid \in 1..Len(subs), w \in RequestedWeights :
       CreateWithdrawalRequest("u1", sid, "gold", w[1], w[2])
  \/ \E rid \in StoredRequestIds : UpdateWithdrawalRequest(rid, "approved", "none", "verified")

SpecRace == InitRace /\ [][NextRace]_vars

\* ------------------------------------------------------ claims: settlement

\* The last step was a call of processWithdrawalApproval.
Settled == last.op = "settle"
SettledOk == Settled /\ last.success

\* C5: settlement is all-or-nothing: whenever processWithdrawalApproval returns
\* {success: false}, the stored subscriptions, users and withdrawal requests
\* are exactly what they were before the call.
C5_AllOrNothing ==
  (Settled /\ ~last.success) =>
    /\ subs = last.subs
    /\ users = last.users
    /\ requests = last.requests

\* C5 witness: a call that failed at the commit, after the subscription and the
\* user were saved in the session, on a request that passed every precondition.
C5_Witness ==
  /\ Settled /\ ~last.success
  /\ last.fault = "commit"
  /\ subs[last.requests[last.rid].subscriptionId].accumulatedWeight > 0

\* C6: conservation at settlement: after a successful settlement the
\* subscription's accumulatedWeight and accumulatedValue are 0, and exactly one
\* counter of the user changed: withdrawnGold (gold, grams) or withdrawnSilver
\* (silver, troy ounces) grew by exactly the converted requested weight.
C6_Conservation ==
  SettledOk =>
    LET wr == last.requests[last.rid]
        before == last.users[wr.userId]
        after == users[wr.userId]
        grams == convertWeight(wr.requestedWeight, wr.requestedUnit, "g")
        ounces == convertWeight(wr.requestedWeight, wr.requestedUnit, "oz")
    IN /\ subs[wr.subscriptionId].accumulatedWeight = 0
       /\ subs[wr.subscriptionId].accumulatedValue = 0
       /\ wr.metal = "gold" =>
            /\ after.withdrawnGold = before.withdrawnGold + grams
            /\ after.withdrawnGold # before.withdrawnGold
            /\ after.withdrawnSilver = before.withdrawnSilver
       /\ wr.metal = "silver" =>
            /\ after.withdrawnSilver = before.withdrawnSilver + ounces
            /\ after.withdrawnSilver # before.withdrawnSilver
            /\ after.withdrawnGold = before.withdrawnGold

\* C6 witness: a successful settlement of a silver request made in grams, whose
\* credit is the converted weight, not the requested number.
C6_Witness ==
  /\ SettledOk
  /\ last.requests[last.rid].metal = "silver"
  /\ last.requests[last.rid].requestedUnit = "g"
  /\ last.credited # last.requests[last.rid].requestedWeight
  /\ last.subs[last.requests[last.rid].subscriptionId].accumulatedValue > 0

\* C7: case split of a successful settlement: accumulatedWeight >= targetWeight
\* before it gives status canceled after it, whatever the external cancel
\* answered and also without an external subscription id; accumulatedWeight <
\* targetWeight leaves the status as it was and makes no external cancel call.
C7_CaseSplit ==
  SettledOk =>
    LET sid == last.requests[last.rid].subscriptionId
        before == last.subs[sid]
    IN /\ before.accumulatedWeight >= before.targetWeight =>
            subs[sid].status = "canceled"
       /\ before.accumulatedWeight < before.targetWeight =>
            /\ subs[sid].status = before.status
            /\ ~last.cancelCalled
            /\ canceled = last.canceled

\* C7 witness: a successful settlement of a subscription exactly at its target,
\* not canceled before, whose external cancel call threw.
C7_Witness ==
  /\ SettledOk
  /\ LET before == last.subs[last.requests[last.rid].subscriptionId]
     IN /\ before.accumulatedWeight = before.targetWeight
        /\ before.status # "canceled"
  /\ last.outcome = "throws"

\* The preconditions of a settlement, on the state before the call.
C9_Violation ==
  LET rid == last.rid
      reqs == last.requests
  IN \/ rid \notin DOMAIN reqs
     \/ reqs[rid].status \in {"completed", "rejected"}
     \/ reqs[rid].status # "approved"
     \/ reqs[rid].subscriptionId = 0
     \/ reqs[rid].subscriptionId \notin 1..Len(last.subs)
     \/ last.subs[reqs[rid].subscriptionId].accumulatedWeight = 0
     \/ convertWeight(reqs[rid].requestedWeight, reqs[rid].requestedUnit,
                      last.subs[reqs[rid].subscriptionId].targetUnit)
          > last.subs[reqs[rid].subscriptionId].accumulatedWeight

\* C9: settlement preconditions give a typed failure, never an exception: the
\* call returns {success: false, error} without throwing when the request does
\* not exist, is completed or rejected, is not approved, has no subscription
\* link, names no stored subscription, or when the subscription's
\* accumulatedWeight is 0 or below the converted requested weight; and it
\* returns {success: true} only when none of these holds.
C9_TypedFailure ==
  Settled =>
    /\ C9_Violation => (~last.success /\ last.error # None)
    /\ last.success => ~C9_Violation

\* C9 witness: a request in status pending with enough balance behind it,
\* refused because it is not approved.
C9_Witness ==
  /\ Settled /\ ~last.success /\ last.error = "not approved"
  /\ last.requests[last.rid].status = "pending"
  /\ last.requests[last.rid].subscriptionId = 1
  /\ last.subs[1].accumulatedWeight >= 2 * WeightScale

\* ------------------------------------------------- claims: event processing

RECURSIVE SumAmounts(_)
\* The sum of the amounts paid by the events of a set of event ids.
SumAmounts(es) ==
  IF es = {} THEN 0
  ELSE LET e == CHOOSE x \in es : TRUE IN Events[e].amount + SumAmounts(es \ {e})

\* The distinct paid invoice events synced into subscription s.
PaidEvents(s) == {e \in EventIds : \E t \in 1..now : <<s, e, t>> \in accrued}

\* No paid invoice event was synced twice into one subscription.
NoRedelivery == \A a, b \in accrued : (a[1] = b[1] /\ a[2] = b[2]) => a = b

\* The last step was a delivery to processStripeEvent.
Delivered == last.op = "deliver"

\* C1: accumulation is applied exactly once per distinct billing event: with
\* no withdrawal settlement so far, every subscription's accumulatedValue is
\* the sum of the amounts paid over the distinct invoice.payment_succeeded
\* event ids delivered for it, however often each was delivered.
C1_ExactlyOnce ==
  (\A r \in RequestIds : credits[r] = 0) =>
    \A s \in 1..Len(subs) : subs[s].accumulatedValue = SumAmounts(PaidEvents(s))

\* C2: idempotence on the order: the delivery of the event id that the
\* delivery just before it had leaves every order that delivery matched (the
\* orders carrying the event id) as that delivery left it, field for field.
C2_SameEventTwice ==
  [][(last'.op = "deliver" /\ last'.again) =>
       \A i \in 1..Len(orders) :
         orders[i].latestStripeEventId = last'.e => orders'[i] = orders[i]]_vars

\* C2 witness: a paid invoice event delivered twice in a row, the order it
\* matched carrying its id.
C2_Witness ==
  /\ Delivered /\ last.again
  /\ Events[last.e].type = "invoice.payment_succeeded"
  /\ \E i \in 1..Len(orders) : orders[i].latestStripeEventId = last.e

\* C3: the delivery of an event id that was applied to an order before leaves
\* that order as it is, whatever was applied to it in between.
C3_AppliedBefore ==
  [][last'.op = "deliver" =>
       \A i \in 1..Len(orders) :
         <<i, last'.e>> \in applied => orders'[i] = orders[i]]_vars

\* The request whose settlement the last step committed, and its subscription.
SettledStep == last.op = "updateRequest" /\ last.success

\* C4: monotonic accumulation: a subscription's accumulatedWeight or
\* accumulatedValue goes down only in the step of a successful settlement of a
\* request on it, and such a step leaves both at exactly zero.
C4_Monotonic ==
  [][/\ Len(subs') >= Len(subs)
     /\ \A s \in 1..Len(subs) :
          (\/ subs'[s].accumulatedWeight < subs[s].accumulatedWeight
           \/ subs'[s].accumulatedValue < subs[s].accumulatedValue)
            => /\ last'.op = "updateRequest" /\ last'.success /\ credits' # credits
               /\ requests'[last'.rid].subscriptionId = s
     /\ (last'.op = "updateRequest" /\ last'.success /\ credits' # credits)
          => /\ subs'[requests'[last'.rid].subscriptionId].accumulatedWeight = 0
             /\ subs'[requests'[last'.rid].subscriptionId].accumulatedValue = 0]_vars

\* C4 witness: a settlement committed on a subscription that a paid invoice
\* was accumulated into, its balances at zero.
C4_Witness ==
  /\ SettledStep
  /\ subs[requests[last.rid].subscriptionId].accumulatedWeight = 0
  /\ subs[requests[last.rid].subscriptionId].accumulatedValue = 0
  /\ users[requests[last.rid].userId].withdrawnGold > 0
  /\ PaidEvents(requests[last.rid].subscriptionId) # {}

\* C8: settlement happens once per withdrawal request: whatever the admin's
\* status updates and the renewal payments in between (each paid invoice
\* event accumulated once), at most one settlement is committed on account of
\* a request.
C8_SettledOnce == NoRedelivery => \A r \in RequestIds : credits[r] <= 1

\* ---------------------------------------- claims: concurrent settlement

\* C10: atomic visibility of settlement: in every stored state, whatever the
\* interleaving of two settlements of one request, the subscription's balance
\* is drained exactly when the user's total is credited for the request, and
\* the total is credited at most once.
C10_AtomicVisibility ==
  LET wr == requests[ConcRequest]
      drained == subs[wr.subscriptionId].accumulatedWeight = 0
      credited == users[wr.userId].withdrawnGold
  IN /\ drained <=> credited = StandardWeight(wr)
     /\ ~drained <=> credited = 0
     /\ credits[ConcRequest] <= 1

\* C10 witness: both callers read the balance before either committed; one
\* committed, the other was refused by the write conflict.
C10_Witness ==
  /\ \A p \in Procs : txn[p].pc = "done"
  /\ \E p \in Procs : txn[p].error = "write conflict"
  /\ credits[ConcRequest] = 1
  /\ users["u1"].withdrawnGold = StandardWeight(requests[ConcRequest])

\* ------------------------------------------- claims: ledger and cleanup

\* The stored order with the id of `order`, as a set of records (empty when
\* it was deleted).
StoredAs(ords, order) == {ords[j] : j \in {k \in 1..Len(ords) : ords[k].id = order.id}}

\* An order that records a succeeded payment.
IsPaid(order) == order.status = "paid" /\ order.paymentStatus = "succeeded"

\* The event types that must leave a recorded payment alone.
LaterEventTypes ==
  {"customer.subscription.created", "customer.subscription.updated",
   "customer.subscription.deleted", "invoice.payment_failed",
   "payment_intent.payment_failed"}

\* C11: orders are an immutable payment history: an order that is paid and
\* succeeded is still stored, paid and succeeded, after the delivery of a
\* subscription lifecycle event, of a failed invoice payment or of a failed
\* payment intent, and after a run of the cleanup job.
C11_PaidStaysPaid ==
  [][(\/ last'.op = "cleanup"
      \/ last'.op = "deliver" /\ Events[last'.e].type \in LaterEventTypes) =>
       \A i \in 1..Len(orders) :
         IsPaid(orders[i]) =>
           /\ StoredAs(orders', orders[i]) # {}
           /\ \A o \in StoredAs(orders', orders[i]) : IsPaid(o)]_vars

\* C12: the delivery of a customer.subscription.deleted event leaves every
\* order record as it was.
C12_DeletedTouchesNoOrder ==
  [][(last'.op = "deliver" /\ Events[last'.e].type = "customer.subscription.deleted") =>
       orders' = orders]_vars

\* ------------------------------------------------------ claims: order lookup

\* The order field each key of a lookup is compared with, in the order the
\* keys are tried.
LookupFields ==
  <<"id", "stripeSessionId", "stripeSubscriptionId", "stripeInvoiceId",
    "stripePaymentIntentId">>

KeyOf(lookup, k) == IF k = 1 THEN lookup.orderId ELSE lookup[LookupFields[k]]

KeyPresent(lookup, k) == IF k = 1 THEN lookup.orderId # 0 ELSE lookup[LookupFields[k]] # None

\* The orders the k-th key of the lookup matches.
Hits(ords, lookup, k) ==
  IF KeyPresent(lookup, k)
    THEN {i \in 1..Len(ords) : ords[i][LookupFields[k]] = KeyOf(lookup, k)}
    ELSE {}

\* The first key of the lookup that matches any order (none: the empty set).
FirstKey(ords, lookup) ==
  {k \in 1..Len(LookupFields) :
     /\ Hits(ords, lookup, k) # {}
     /\ \A j \in 1..(k - 1) : Hits(ords, lookup, j) = {}}

\* C13: updateOrderByLookup tries order id, checkout-session id, external
\* subscription id, invoice id, payment-intent id in that order; the order it
\* returns and updates is one matched by the first key that matches any
\* order, and every other order, those matched only by a later key included,
\* is left as it was.
C13_LookupPrecedence ==
  [][last'.op = "lookup" =>
       \A k \in FirstKey(orders, last'.lookup) :
         /\ last'.idx \in Hits(orders, last'.lookup, k)
         /\ Len(orders') = Len(orders)
         /\ \A i \in 1..Len(orders) : i # last'.idx => orders'[i] = orders[i]
         /\ orders[last'.idx].latestStripeEventId # last'.e =>
              orders'[last'.idx] =
                Stamp(Assign(orders[last'.idx], LookupUpdates),
                      StripeEventContext(last'.e, now'))]_vars

\* A lookup two of whose keys match different orders has updated the order of
\* the earlier key and not the order of the later one.
C13_Witness ==
  /\ last.op = "lookup"
  /\ \E k1, k2 \in 1..Len(LookupFields) :
       /\ k1 < k2
       /\ FirstKey(orders, last.lookup) = {k1}
       /\ last.idx \in Hits(orders, last.lookup, k1)
       /\ orders[last.idx].latestStripeEventId = last.e
       /\ orders[last.idx].latestStripeEventReceivedAt = now
       /\ \E i \in Hits(orders, last.lookup, k2) \ Hits(orders, last.lookup, k1) :
            orders[i].latestStripeEventId # last.e

\* C14: when no key of the lookup matches an order, updateOrderByLookup
\* changes no order, emits one operations alert and returns null; a verified
\* event delivered while there is no order at all changes nothing and is
\* answered 200.
C14_NoMatchIsNotAnError ==
  [][/\ (last'.op = "lookup" /\ FirstKey(orders, last'.lookup) = {}) =>
          (orders' = orders /\ last'.idx = 0 /\ last'.alerts = 1)
     /\ (last'.op = "deliver" /\ orders = <<>>) =>
          (orders' = orders /\ subs' = subs /\ last'.response = 200)]_vars

\* A lookup with keys present, none of which matches one of the stored
\* orders, has ended with null and one alert.
C14_Witness ==
  /\ last.op = "lookup"
  /\ Len(orders) = 2
  /\ last.lookup.orderId = 9
  /\ last.lookup.stripeInvoiceId = "in_1"
  /\ FirstKey(orders, last.lookup) = {}
  /\ last.idx = 0
  /\ last.alerts = 1

\* ---------------------------------------------------- claims: webhook answers

\* C15: a delivery whose signature was verified is answered 2xx whatever
\* happens while it is processed; only a delivery without a valid signature is
\* answered otherwise.
C15_VerifiedIsAnswered2xx ==
  /\ last.op = "deliver" => last.response \in 200..299
  /\ last.op = "reject" => last.response \notin 200..299

\* The subscriptions that carry the external subscription id of event e.
SubscriptionsOf(sbs, e) ==
  {s \in DOMAIN sbs : sbs[s].stripeSubscriptionId = Events[e].subscription}

\* C17: a customer.subscription.created delivered after a
\* customer.subscription.updated for the same external subscription leaves the
\* Subscription with the status of the snapshot applied last, and an order
\* that was cancelled before it is still cancelled after it.
C17_NoRevival ==
  [][(/\ last.op = "deliver"
      /\ Events[last.e].type = "customer.subscription.updated"
      /\ last'.op = "deliver"
      /\ Events[last'.e].type = "customer.subscription.created"
      /\ Events[last'.e].subscription = Events[last.e].subscription) =>
       /\ \A s \in SubscriptionsOf(subs', last'.e) :
            subs'[s].status = mapStripeSubscriptionStatus(Events[last'.e].status)
       /\ \A i \in 1..Len(orders) : orders[i].status = "cancelled" =>
            \A o \in StoredAs(orders', orders[i]) : o.status = "cancelled"]_vars

\* ---------------------------------------------------- claims: renewal orders

\* The lookup an invoice event is matched with.
InvoiceLookup(e) ==
  Lookup(Events[e].oid, None, Events[e].subscription, Events[e].invoice, None)

\* The plan fields of a subscription.
PlanOf(sub) ==
  [planName |-> sub.planName, metal |-> sub.metal, targetWeight |-> sub.targetWeight,
   targetUnit |-> sub.targetUnit]

\* The orders of type subscription that carry the external subscription id
\* of event e.
EarlierOrders(ords, e) ==
  {i \in 1..Len(ords) :
     /\ ords[i].stripeSubscriptionId = Events[e].subscription
     /\ ords[i].orderType = "subscription"}

\* C16: an invoice.payment_succeeded that matches no order while a
\* Subscription carries its external subscription id adds exactly one order:
\* of type subscription, paid/succeeded, stamped with the event id, with the
\* plan of the earliest order of that external subscription if there is one
\* and of the Subscription otherwise; the same event delivered again adds no
\* order.
C16_RenewalBackfill ==
  [][(last'.op = "deliver" /\ Events[last'.e].type = "invoice.payment_succeeded") =>
       /\ (/\ FirstKey(orders, InvoiceLookup(last'.e)) = {}
           /\ SubscriptionsOf(subs, last'.e) # {}) =>
            /\ Len(orders') = Len(orders) + 1
            /\ \A i \in 1..Len(orders) : orders'[i] = orders[i]
            /\ orders'[Len(orders')].orderType = "subscription"
            /\ orders'[Len(orders')].status = "paid"
            /\ orders'[Len(orders')].paymentStatus = "succeeded"
            /\ orders'[Len(orders')].latestStripeEventId = last'.e
            /\ orders'[Len(orders')].stripeSubscriptionId = Events[last'.e].subscription
            /\ orders'[Len(orders')].stripeInvoiceId = Events[last'.e].invoice
            /\ \A i \in EarlierOrders(orders, last'.e) :
                 (\A j \in EarlierOrders(orders, last'.e) : i <= j) =>
                   orders'[Len(orders')].config = orders[i].config
            /\ EarlierOrders(orders, last'.e) = {} =>
                 \E s \in SubscriptionsOf(subs, last'.e) :
                   orders'[Len(orders')].config = PlanOf(subs[s])
       /\ last'.again => Len(orders') = Len(orders)]_vars

\* The same invoice.payment_succeeded was delivered twice in a row after it
\* had been backfilled: the ledger holds one order of that invoice, without a
\* checkout session and stamped with the event.
C16_Witness ==
  /\ last.op = "deliver"
  /\ Events[last.e].type = "invoice.payment_succeeded"
  /\ last.again
  /\ Cardinality({i \in 1..Len(orders) :
                    orders[i].stripeInvoiceId = Events[last.e].invoice}) = 1
  /\ \E i \in 1..Len(orders) :
       /\ orders[i].stripeSessionId = None
       /\ orders[i].latestStripeEventId = last.e
       /\ orders[i].status = "paid"

\* --------------------------------------------------------- claims: scenarios

\* A delivery of a checkout.session.completed with payment_status paid.
PaidCheckout(l) ==
  /\ l.op = "deliver"
  /\ l.response = 200
  /\ Events[l.e].type = "checkout.session.completed"
  /\ Events[l.e].status = "paid"

\* C18: the happy path.  Delivered against a pending/pending order of type
\* subscription that has no Subscription yet, a paid checkout.session.completed
\* makes the order paid/succeeded and creates a Subscription in
\* pending_payment with zero balances; the invoice.payment_succeeded that
\* follows for that external subscription makes the Subscription active, adds
\* the paid amount to accumulatedValue and adds the paid amount divided by the
\* price per unit in the target unit to accumulatedWeight.
C18_HappyPath ==
  [][/\ (PaidCheckout(last') /\ subs = <<>>) =>
          \A i \in 1..Len(orders) :
            (/\ orders[i].id = Events[last'.e].oid
             /\ orders[i].orderType = "subscription"
             /\ orders[i].status = "pending"
             /\ orders[i].paymentStatus = "pending") =>
               /\ IsPaid(orders'[i])
               /\ Len(subs') = 1
               /\ subs'[1].status = "pending_payment"
               /\ subs'[1].accumulatedValue = 0
               /\ subs'[1].accumulatedWeight = 0
               /\ subs'[1].stripeSubscriptionId = Events[last'.e].subscription
     /\ (/\ PaidCheckout(last)
         /\ last'.op = "deliver"
         /\ last'.response = 200
         /\ Events[last'.e].type = "invoice.payment_succeeded"
         /\ Events[last'.e].subscription = Events[last.e].subscription) =>
          \A s \in SubscriptionsOf(subs, last'.e) :
            subs[s].status = "pending_payment" =>
              /\ subs'[s].status = "active"
              /\ subs'[s].accumulatedValue = subs[s].accumulatedValue + Events[last'.e].amount
              /\ getMetalPricePerUnit(subs[s].metal, subs[s].targetUnit) > 0
              /\ subs'[s].accumulatedWeight = subs[s].accumulatedWeight +
                   (Events[last'.e].amount * WeightScale) \div
                     getMetalPricePerUnit(subs[s].metal, subs[s].targetUnit)]_vars

\* The happy path was walked: one paid order, one active Subscription holding
\* the amount of one invoice and the weight it bought.
C18_Witness ==
  /\ last.op = "deliver"
  /\ Events[last.e].type = "invoice.payment_succeeded"
  /\ Len(orders) = 1
  /\ IsPaid(orders[1])
  /\ orders[1].subscriptionId = 1
  /\ Len(subs) = 1
  /\ subs[1].status = "active"
  /\ subs[1].accumulatedValue = Events[last.e].amount
  /\ subs[1].accumulatedWeight =
       (Events[last.e].amount * WeightScale) \div prices[subs[1].metal]
  /\ subs[1].accumulatedWeight > 0

\* The orders linked to the payment intent of event e.
LinkedOrders(ords, e) ==
  {i \in 1..Len(ords) : ords[i].stripePaymentIntentId = Events[e].paymentIntent}

\* A delivery of a payment_intent.payment_failed whose payment intent was
\* retrieved.
PaymentFailed(l) ==
  /\ l.op = "deliver"
  /\ l.response = 200
  /\ l.retrieved
  /\ Events[l.e].type = "payment_intent.payment_failed"

\* C19: a payment_intent.payment_failed delivered against an order linked to
\* its payment intent leaves that order cancelled/failed; the same event id
\* delivered again directly after it changes no order and no Subscription.
C19_DuplicatePaymentFailed ==
  [][(PaymentFailed(last') /\ LinkedOrders(orders, last'.e) # {}) =>
       /\ \E i \in LinkedOrders(orders, last'.e) :
            /\ orders'[i].status = "cancelled"
            /\ orders'[i].paymentStatus = "failed"
            /\ orders'[i].latestStripeEventId = last'.e
       /\ (PaymentFailed(last) /\ last'.again) => (orders' = orders /\ subs' = subs)]_vars

\* The same payment_intent.payment_failed was delivered twice in a row: the
\* order of type subscription linked to the payment intent is cancelled/failed
\* with the stamp of the first delivery, its Subscription past_due.
C19_Witness ==
  /\ PaymentFailed(last)
  /\ last.again
  /\ \E i \in LinkedOrders(orders, last.e) :
       /\ orders[i].status = "cancelled"
       /\ orders[i].paymentStatus = "failed"
       /\ orders[i].latestStripeEventId = last.e
       /\ orders[i].latestStripeEventReceivedAt = now - 1
       /\ orders[i].subscriptionId \in DOMAIN subs
       /\ subs[orders[i].subscriptionId].status = "past_due"

\* The state the processor reports for the checkout session of an order.
RemoteOf(l, order) == l.remote[order.stripeSessionId]

\* C20: a run of runCheckoutSessionCleanup sets every order that is pending,
\* has a checkout session older than the expiry threshold and no payment
\* intent, to paid/succeeded when the session is complete and paid and to
\* cancelled/failed when it is expired, complete and unpaid, or not found,
\* whatever event the order was last stamped with.
C20_SweepRepairs ==
  [][last'.op = "cleanup" =>
       \A i \in 1..last'.oldest :
         (/\ orders[i].status = "pending"
          /\ orders[i].stripeSessionId # None
          /\ orders[i].stripePaymentIntentId = None) =>
            /\ RemoteOf(last', orders[i]) = "paid" =>
                 /\ StoredAs(orders', orders[i]) # {}
                 /\ \A o \in StoredAs(orders', orders[i]) : IsPaid(o)
            /\ RemoteOf(last', orders[i]) \in {"expired", "unpaid", "missing"} =>
                 \A o \in StoredAs(orders', orders[i]) :
                   o.status = "cancelled" /\ o.paymentStatus = "failed"]_vars

\* ------------------------------------------------- claims: the cleanup job

\* The orders a step removed from the ledger.
Deleted(before, after) == {i \in 1..Len(before) : StoredAs(after, before[i]) = {}}

\* An order in the terminal state cancelled/failed.
IsCancelled(order) == order.status = "cancelled" /\ order.paymentStatus = "failed"

\* C21: a run of the job deletes an order only if the order was cancelled
\* with a failed payment before the run and was not written since the
\* retention cutoff; an order that is pending or paid is never deleted.
C21_DeletesOnlyTerminal ==
  [][last'.op = "cleanup" =>
       \A i \in Deleted(orders, orders') :
         /\ IsCancelled(orders[i])
         /\ last'.quiet
         /\ i <= last'.oldest]_vars

\* C22: every run of the job in which no save rejects deletes the orders that
\* were cancelled/failed and not written since the retention cutoff, also a
\* run that finds no order to reconcile.
C22_RetentionAlwaysRuns ==
  [][(last'.op = "cleanup" /\ last'.failing = 0 /\ last'.quiet) =>
       \A i \in 1..last'.oldest :
         IsCancelled(orders[i]) => i \in Deleted(orders, orders')]_vars

\* C23: a run of the job in which the save of one order rejects still
\* reconciles every other order it selected (an expired or missing session
\* leaves the order cancelled/failed) and still deletes the orders that were
\* cancelled/failed and not written since the retention cutoff.
C23_OneBadOrder ==
  [][(last'.op = "cleanup" /\ last'.failing # 0) =>
       /\ \A i \in StaleOrders(orders, 1..last'.oldest) \ {last'.failing} :
            RemoteOf(last', orders[i]) \in {"expired", "missing"} =>
              /\ StoredAs(orders', orders[i]) # {}
              /\ \A o \in StoredAs(orders', orders[i]) : IsCancelled(o)
       /\ last'.quiet =>
            \A i \in 1..last'.oldest :
              IsCancelled(orders[i]) => i \in Deleted(orders, orders')]_vars

\* ------------------------------------------- claims: requests and approvals

\* A createWithdrawalRequest for a subscription that exists, is the caller's
\* and is stored as subscription 1.
AskedOf(l) == l.op = "createRequest" /\ l.sid = 1

\* The weight asked for, in the unit of the subscription.
AskedWeight(l, sub) == convertWeight(l.weight, l.unit, sub.targetUnit)

ApprovesCancellation(l) ==
  /\ l.op = "updateCancellation"
  /\ l.response = 200
  /\ l.caller = "admin"
  /\ l.status = "approved"
  /\ l.before # "approved"
  /\ l.sid \in 1..Len(subs)

\* C25: an admin update that changes a cancellation request from a status
\* other than approved to approved calls the processor's cancel exactly when
\* the subscription has an external id, and leaves the subscription canceled;
\* an admin update whose status is the recorded one, and any update by a
\* caller who is not an admin, call no cancel and leave every subscription as
\* it was.
C25_ApprovalCancelsOnce ==
  [][last'.op = "updateCancellation" =>
       /\ ApprovesCancellation(last') =>
            /\ last'.cancelCalled = (subs[last'.sid].stripeSubscriptionId # None)
            /\ subs'[last'.sid].status = "canceled"
            /\ cancellations'[last'.cid].status = "approved"
       /\ (last'.caller # "admin" \/ last'.status = last'.before) =>
            /\ ~last'.cancelCalled
            /\ subs' = subs
            /\ canceled' = canceled]_vars

\* An approval has cancelled an active subscription that has an external id,
\* the processor confirmed it, and approved has been applied to the approved
\* request again.
C25_Witness ==
  /\ last.op = "updateCancellation"
  /\ last.caller = "admin"
  /\ last.status = "approved"
  /\ last.before = "approved"
  /\ ~last.cancelCalled
  /\ subs[1].status = "canceled"
  /\ subs[1].stripeSubscriptionId \in canceled

\* The processor's cancel was called and did not end verified.
CancelFailed(l) == l.outcome \in {"unverified", "throws"}

C27_FailureIsSurfaced ==
  (last.op = "updateRequest" /\ last.settles /\ ~last.success) =>
    last.response \notin 200..299

\* C28: after a settlement has failed for a request the admin moved to
\* approved, the next admin update of that request with status approved runs
\* the settlement again; and a settlement only ever runs inside an admin
\* update that asks for approved.
C28_RetryByReapplying ==
  [][/\ (/\ last.op = "updateRequest" /\ last.settles /\ ~last.success
          /\ last'.op = "updateRequest" /\ last'.rid = last.rid
          /\ requests'[last'.rid].status = "approved") => last'.settles
     /\ (credits' # credits \/ users' # users) =>
          (last'.op = "updateRequest" /\ last'.settles
             /\ requests'[last'.rid].status = "approved")]_vars

\* ------------------------------------------- claims: subscription sync

\* The stored subscriptions with the fingerprint of the order.
Fingerprinted(sbs, order) ==
  {k \in 1..Len(sbs) :
     /\ sbs[k].userId = order.user
     /\ sbs[k].stripeCustomerId = order.stripeCustomerId
     /\ sbs[k].metal = order.config.metal
     /\ sbs[k].planName = order.config.planName
     /\ sbs[k].targetWeight = order.config.targetWeight
     /\ sbs[k].targetUnit = order.config.targetUnit}

\* C29: the subscription a sync works on is the one with the order's external
\* subscription id, else the one the order is linked to, else one with the
\* order's fingerprint that is not linked to an external id, else a new one;
\* so a sync that carries external id X leaves every subscription linked to
\* another external id as it was.
C29_MatchingOrder ==
  [][last'.op = "sync" =>
       LET X == last'.stripeSubscriptionId
           byId == {k \in 1..Len(subs) : X # None /\ subs[k].stripeSubscriptionId = X}
           byLink == {orders[1].subscriptionId} \cap (1..Len(subs))
           byPrint == {k \in Fingerprinted(subs, orders[1]) :
                         subs[k].stripeSubscriptionId = None}
       IN /\ IF byId # {} THEN last'.sub \in byId
             ELSE IF byLink # {} THEN last'.sub \in byLink
             ELSE IF byPrint # {} THEN last'.sub \in byPrint
             ELSE last'.created
          /\ X # None =>
               \A k \in 1..Len(subs) :
                 subs[k].stripeSubscriptionId \notin {None, X} => subs'[k] = subs[k]]_vars

\* C30: a sync with a positive value delta, at a stored price that is
\* missing, zero or negative, still returns its subscription, adds the value
\* delta to accumulatedValue, sets the requested status and leaves
\* accumulatedWeight as it was (0 on a subscription it creates).
C30_PriceGapDoesNotBlock ==
  [][(last'.op = "sync" /\ last'.valueDelta > 0 /\ prices[CheckoutPlan.metal] <= 0) =>
       LET k == last'.sub IN
       /\ k \in 1..Len(subs')
       /\ orders'[1].subscriptionId = k
       /\ subs'[k].status = IF last'.status = None THEN "pending_payment" ELSE last'.status
       /\ subs'[k].accumulatedValue =
            (IF last'.created THEN 0 ELSE subs[k].accumulatedValue) + last'.valueDelta
       /\ subs'[k].accumulatedWeight =
            (IF last'.created THEN 0 ELSE subs[k].accumulatedWeight)]_vars

\* A payment was added to a stored subscription that holds weight, at a
\* negative stored price.
C30_Witness ==
  /\ last.op = "sync"
  /\ last.valueDelta = 1000
  /\ last.status = "active"
  /\ ~last.created
  /\ prices.gold < 0
  /\ subs[last.sub].accumulatedValue = 4000
  /\ subs[last.sub].accumulatedWeight = WeightScale
  /\ subs[last.sub].status = "active"

\* ------------------------------------------- claims: statuses and frames

\* The order a customer.subscription event for sub_A finds (0: none).
SubscriptionOrder(ords) == MatchOrder(ords, Lookup(1, None, "sub_A", None, None))

\* C31: a customer.subscription.created or .updated event in status s leaves
\* the matched order paid/succeeded when s is active, cancelled/failed when s
\* is canceled or unpaid, and pending/pending for every other s; and leaves
\* the subscription with the event's external id in status s when s is one
\* of active, trialing, incomplete, incomplete_expired, past_due, canceled,
\* unpaid, and in pending_payment otherwise.
C31_StatusMapping ==
  [][last'.op = "deliverSubscription" =>
       LET s == last'.status
           i == SubscriptionOrder(orders)
       IN /\ i # 0 =>
               /\ orders'[i].status =
                    IF s = "active" THEN "paid"
                    ELSE IF s \in {"canceled", "unpaid"} THEN "cancelled" ELSE "pending"
               /\ orders'[i].paymentStatus =
                    IF s = "active" THEN "succeeded"
                    ELSE IF s \in {"canceled", "unpaid"} THEN "failed" ELSE "pending"
          /\ \A k \in 1..Len(subs') :
               subs'[k].stripeSubscriptionId = "sub_A" =>
                 subs'[k].status = IF s = "paused" THEN "pending_payment" ELSE s
          /\ i # 0 => \E k \in 1..Len(subs') : subs'[k].stripeSubscriptionId = "sub_A"]_vars

\* A paid order and its subscription went to past_due by an update event.
C31_Witness ==
  /\ last.op = "deliverSubscription"
  /\ last.status = "past_due"
  /\ last.type = "customer.subscription.updated"
  /\ Len(orders) = 1
  /\ orders[1].status = "pending"
  /\ orders[1].paymentStatus = "pending"
  /\ orders[1].latestStripeEventId = last.e
  /\ <<1, "evt_checkout">> \in applied
  /\ Len(subs) = 1
  /\ subs[1].status = "past_due"

\* A delivery of an invoice.payment_failed event that processStripeEvent
\* handled to its end.
PaymentFailedInvoice(l) ==
  l.op = "deliver" /\ l.response = 200 /\ Events[l.e].type = "invoice.payment_failed"

\* C32: an invoice.payment_failed event leaves the order it matches, or the
\* renewal order it creates when it matches none and a subscription carries
\* its external subscription id, pending with paymentStatus failed; it leaves
\* that subscription past_due; and it leaves the accumulatedValue and
\* accumulatedWeight of every subscription as they were.
C32_PaymentFailedFrame ==
  [][PaymentFailedInvoice(last') =>
       LET hit == {MatchOrder(orders, InvoiceLookup(last'.e))} \ {0}
           known == SubscriptionsOf(subs, last'.e)
       IN /\ \A i \in hit : /\ orders'[i].status = "pending"
                             /\ orders'[i].paymentStatus = "failed"
          /\ (hit = {} /\ known # {}) =>
               /\ Len(orders') = Len(orders) + 1
               /\ orders'[Len(orders')].status = "pending"
               /\ orders'[Len(orders')].paymentStatus = "failed"
               /\ orders'[Len(orders')].stripeInvoiceId = Events[last'.e].invoice
          /\ (hit # {} \/ known # {}) =>
               /\ SubscriptionsOf(subs', last'.e) # {}
               /\ \A k \in SubscriptionsOf(subs', last'.e) : subs'[k].status = "past_due"
          /\ \A k \in 1..Len(subs) :
               /\ subs'[k].accumulatedValue = subs[k].accumulatedValue
               /\ subs'[k].accumulatedWeight = subs[k].accumulatedWeight
          /\ \A k \in (1..Len(subs')) \ (1..Len(subs)) :
               /\ subs'[k].accumulatedValue = 0
               /\ subs'[k].accumulatedWeight = 0]_vars

\* A subscription that had accumulated a payment went past_due on a failed
\* invoice, which turned its paid order to pending/failed.
C32_Witness ==
  /\ PaymentFailedInvoice(last)
  /\ Len(orders) = 1
  /\ orders[1].status = "pending"
  /\ orders[1].paymentStatus = "failed"
  /\ orders[1].latestStripeEventId = last.e
  /\ Len(subs) = 1
  /\ subs[1].status = "past_due"
  /\ subs[1].accumulatedValue = 1000
  /\ subs[1].accumulatedWeight > 0

\* C33: in every state reached from orders created pending/pending through
\* webhook events and runs of the cleanup job, an order is paid exactly when
\* its paymentStatus is succeeded, and a cancelled order has paymentStatus
\* failed.
C33_StatusCoherence ==
  \A i \in 1..Len(orders) :
    /\ (orders[i].status = "paid") = (orders[i].paymentStatus = "succeeded")
    /\ orders[i].status = "cancelled" => orders[i].paymentStatus = "failed"

\* The cleanup job marked the one-time order paid for a webhook that was
\* missed, beside the order of a subscription whose checkout completed
\* unpaid.
C33_Witness ==
  /\ last.op = "cleanup"
  /\ Len(orders) = 2
  /\ \E i \in 1..2 : /\ orders[i].status = "paid"
                      /\ orders[i].paymentStatus = "succeeded"
                      /\ orders[i].latestStripeEvent = "checkout.session.completed.paid"
  /\ \E i \in 1..2 : /\ orders[i].status = "cancelled"
                      /\ orders[i].paymentStatus = "failed"
                      /\ orders[i].latestStripeEventId = "evt_checkout_unpaid"

\* ------------------------------------------- claims: runs that overlap

\* Every run has ended.
Quiet == \A p \in Procs : txn[p].pc = "idle"

\* The events whose amount was accumulated, each counted as often as it was.
AccruedEvents == {a[2] : a \in accrued}

\* C34: when two invoice.payment_succeeded events with distinct ids for one
\* subscription have been processed, one run each and in whatever
\* interleaving, and nothing else has paid into or drained the subscription,
\* its accumulatedValue is its initial value (0 after the checkout) plus both
\* amounts.
C34_NoLostAccumulation ==
  (/\ Quiet
   /\ Cardinality(accrued) = 2
   /\ AccruedEvents = {"evt_paid1", "evt_paid2"}
   /\ \A r \in RequestIds : credits[r] = 0
   /\ Len(subs) = 1)
    => subs[1].accumulatedValue = Events["evt_paid1"].amount + Events["evt_paid2"].amount

\* C35: a sync that read the subscription before a settlement committed and
\* saves it after the commit leaves the balance of one of the two serial
\* orders: drained (sync, then settlement) or the event's own amount and
\* weight on the drained balance (settlement, then sync).
C35_SettlementNotUndone ==
  [][(last'.op = "saveSync" /\ last'.settled /\ last'.e \in {"evt_paid1", "evt_paid2"}) =>
       LET k == last'.sub
           serial == {<<0, 0>>,
                      <<Events[last'.e].amount,
                        (Events[last'.e].amount * WeightScale) \div prices.gold>>}
       IN k # 0 => <<subs'[k].accumulatedValue, subs'[k].accumulatedWeight>> \in serial]_vars

\* C36: no two subscriptions carry the same external subscription id.
C36_OnePerExternalId ==
  \A i \in 1..Len(subs), j \in 1..Len(subs) :
    (i # j /\ subs[i].stripeSubscriptionId # None) =>
      subs[i].stripeSubscriptionId # subs[j].stripeSubscriptionId

\* -------------------------------------------- claims: frames and orderings

\* C37: a failed settlement leaves the external plan alone: whenever
\* processWithdrawalApproval returns {success: false}, no cancel call was
\* issued to the external processor during that call.
C37_FailedSettlementNoCancel ==
  (Settled /\ ~last.success) => ~last.cancelCalled

\* C38: the sweep writes orders only: a run of runCheckoutSessionCleanup
\* creates and modifies no Subscription and no User, so an order it marks
\* paid/succeeded adds nothing to any subscription's accumulatedValue or
\* accumulatedWeight and changes no subscription's status.
C38_SweepWritesOrdersOnly ==
  [][last'.op = "cleanup" => (subs' = subs /\ users' = users)]_vars

\* The sweep marked the order of a subscription checkout paid for a webhook
\* that was missed; no subscription exists for it.
C38_Witness ==
  /\ last.op = "cleanup"
  /\ subs = <<>>
  /\ \E i \in 1..Len(orders) :
       /\ orders[i].orderType = "subscription"
       /\ orders[i].status = "paid"
       /\ orders[i].paymentStatus = "succeeded"
       /\ orders[i].latestStripeEvent = "checkout.session.completed.paid"

\* What the subscriptions hold: value and weight of each.
Balances(sbs) ==
  [k \in 1..Len(sbs) |-> <<sbs[k].accumulatedValue, sbs[k].accumulatedWeight>>]

\* The subscriptions after the events `first` and then `second` were
\* processed, one after the other, on the stored orders and subscriptions.
AfterBoth(first, second) ==
  LET h1 == ProcessStripeEvent(orders, subs, Events[first],
                               StripeEventContext(first, now + 1), TRUE)
      h2 == ProcessStripeEvent(h1.orders, h1.subs, Events[second],
                               StripeEventContext(second, now + 2), TRUE)
  IN h2.subs

\* C39: for one new subscription (its checkout session created, no event
\* processed yet), delivering invoice.payment_succeeded before
\* checkout.session.completed ends with the same accumulatedValue and
\* accumulatedWeight of the subscription as delivering them the other way
\* round.
C39_DeliveryOrderIrrelevant ==
  (/\ last.op = "createSession"
   /\ Len(orders) = 1
   /\ orders[1].stripeSessionId = "cs_sub"
   /\ subs = <<>>)
    => Balances(AfterBoth("evt_paid1", "evt_checkout"))
         = Balances(AfterBoth("evt_checkout", "evt_paid1"))

\* C40: local cancellation is terminal: once an approved cancellation request
\* has set a subscription's status to canceled, no webhook event delivered
\* afterwards changes the status to another value.
C40_CancellationTerminal ==
  [][\A c \in 1..Len(cancellations) :
       LET k == cancellations[c].subscriptionId IN
       (/\ last'.op = "deliver"
        /\ cancellations[c].status = "approved"
        /\ k \in 1..Len(subs)
        /\ subs[k].status = "canceled")
         => subs'[k].status = "canceled"]_vars


====
